---- MODULE Spec2Model ----
(***************************************************************************)
(* Model of the Todo aggregate, its validation service, the in-memory      *)
(* repository and the use-case orchestrator of mr3iscuit/ddd-golang.       *)
(*                                                                         *)
(* Encoding of Go values                                                   *)
(*   string        a sequence of runs <<c, n>> (character c repeated n     *)
(*                 times, n > 0, adjacent runs of different characters);   *)
(*                 "" is <<>>.  A character is its Unicode code point (97  *)
(*                 for "a", 32 for " ", 233 for U+00E9); the strings are   *)
(*                 the valid UTF-8 ones.  len (the number of bytes of the  *)
(*                 UTF-8 encoding), == "" and strings.TrimSpace are        *)
(*                 computed on the runs.                                   *)
(*   priority, status, TodoID   TLA+ strings (only compared for equality)  *)
(*   time.Time     a natural number read from the clock variable now       *)
(*   *time.Time    <<>> for nil, <<t>> for a pointer to t                  *)
(*   error         "nil" or the message of errors.New                      *)
(*   *DomainError  NilErr or one of the catalogue records                  *)
(*                                                                         *)
(* Variables                                                               *)
(*   todos    the map of the repository, id -> the todo its entry points   *)
(*            to                                                           *)
(*   now      the clock time.Now reads                                     *)
(*   last     what the last call that returned gave its caller             *)
(*   ent      the value a single-object specification drives: a todo, or   *)
(*            the domain error handed to the HTTP adapter                  *)
(*   procs    the goroutines that are running a call                       *)
(*   mu       the repository's sync.RWMutex                                *)
(*   before   the repository content when the goroutines were started      *)
(***************************************************************************)
EXTENDS Integers, Sequences, FiniteSets, TLC

VARIABLES todos, now, last, ent, procs, mu, before

vars == <<todos, now, last, ent, procs, mu, before>>

(***************************************************************************)
(* Bounds                                                                  *)
(***************************************************************************)
MaxClock == 1

(***************************************************************************)
(* Strings                                                                 *)
(***************************************************************************)
\* unicode.IsSpace: the code points with the White_Space property, "\t",
\* "\n", "\v", "\f", "\r", " ", U+0085, U+00A0, U+1680, U+2000..U+200A,
\* U+2028, U+2029, U+202F, U+205F and U+3000.
WhiteSpace ==
    (9..13) \cup {32, 133, 160, 5760} \cup (8192..8202)
      \cup {8232, 8233, 8239, 8287, 12288}

IsSpace(c) == c \in WhiteSpace

\* utf8.RuneLen: the number of bytes of the UTF-8 encoding of code point c.
RuneLen(c) ==
    IF c < 128 THEN 1 ELSE IF c < 2048 THEN 2 ELSE IF c < 65536 THEN 3 ELSE 4

\* len(s): the number of bytes.
RECURSIVE StrLen(_)
StrLen(s) ==
    IF s = <<>> THEN 0 ELSE s[1][2] * RuneLen(s[1][1]) + StrLen(Tail(s))

RECURSIVE TrimLeft(_)
TrimLeft(s) ==
    IF s = <<>> THEN <<>>
    ELSE IF IsSpace(s[1][1]) THEN TrimLeft(Tail(s)) ELSE s

RECURSIVE TrimRight(_)
TrimRight(s) ==
    IF s = <<>> THEN <<>>
    ELSE IF IsSpace(s[Len(s)][1]) THEN TrimRight(SubSeq(s, 1, Len(s) - 1)) ELSE s

TrimSpace(s) == TrimRight(TrimLeft(s))

\* utf8.RuneCountInString(s): the number of characters.
RECURSIVE CharLen(_)
CharLen(s) == IF s = <<>> THEN 0 ELSE s[1][2] + CharLen(Tail(s))

Rep(c, n) == IF n = 0 THEN <<>> ELSE << <<c, n>> >>

(***************************************************************************)
(* domain/model/todo.go                                                    *)
(***************************************************************************)
TodoStatusPending == "pending"

TodoStatusCompleted == "completed"

TodoStatusArchived == "archived"

TodoPriorityLow == "low"

TodoPriorityMedium == "medium"

TodoPriorityHigh == "high"

MaxEntityTitleLen == 200

MaxEntityDescriptionLen == 1000

nil == "nil"

NewTodo(id, title, description, priority, t) ==
    [id |-> id, title |-> title, description |-> description,
     status |-> TodoStatusPending, priority |-> priority,
     createdAt |-> t, updatedAt |-> t, completedAt |-> <<>>]

NewTodoFromData(id, title, description, status, priority, createdAt, updatedAt, completedAt) ==
    [id |-> id, title |-> title, description |-> description,
     status |-> status, priority |-> priority,
     createdAt |-> createdAt, updatedAt |-> updatedAt,
     completedAt |-> completedAt]

IsCompleted(t) == t.status = TodoStatusCompleted

IsPending(t) == t.status = TodoStatusPending

IsArchived(t) == t.status = TodoStatusArchived

\* Every entity operation returns the todo after the call and the error.
\* MarkAsCompleted without its guard against archived todos.
MarkAsCompleted_NoArchivedGuard(t, clk) ==
    IF IsCompleted(t) THEN [todo |-> t, err |-> "todo is already completed"]
    ELSE [todo |-> [t EXCEPT !.status = TodoStatusCompleted,
                             !.completedAt = <<clk>>,
                             !.updatedAt = clk],
          err |-> nil]

\* MarkAsCompleted that stamps completedAt but not updatedAt.
MarkAsCompleted_StaleUpdatedAt(t, clk) ==
    IF IsCompleted(t) THEN [todo |-> t, err |-> "todo is already completed"]
    ELSE IF IsArchived(t)
         THEN [todo |-> t, err |-> "cannot complete an archived todo"]
    ELSE [todo |-> [t EXCEPT !.status = TodoStatusCompleted,
                             !.completedAt = <<clk>>],
          err |-> nil]

MarkAsCompleted(t, clk) ==
    IF IsCompleted(t) THEN [todo |-> t, err |-> "todo is already completed"]
    ELSE IF IsArchived(t)
         THEN [todo |-> t, err |-> "cannot complete an archived todo"]
    ELSE [todo |-> [t EXCEPT !.status = TodoStatusCompleted,
                             !.completedAt = <<clk>>,
                             !.updatedAt = clk],
          err |-> nil]

\* MarkAsPending that forgets to clear completedAt.
MarkAsPending_KeepsCompletedAt(t, clk) ==
    IF IsCompleted(t)
    THEN [todo |-> t, err |-> "cannot mark completed todo as pending"]
    ELSE [todo |-> [t EXCEPT !.status = TodoStatusPending, !.updatedAt = clk],
          err |-> nil]

MarkAsPending(t, clk) ==
    IF IsCompleted(t)
    THEN [todo |-> t, err |-> "cannot mark completed todo as pending"]
    ELSE [todo |-> [t EXCEPT !.status = TodoStatusPending,
                             !.completedAt = <<>>,
                             !.updatedAt = clk],
          err |-> nil]

\* ArchiveTodo that re-opens an archived todo instead of rejecting the call.
ArchiveTodo_Toggle(t, clk) ==
    IF IsArchived(t)
    THEN [todo |-> [t EXCEPT !.status = TodoStatusPending, !.updatedAt = clk],
          err |-> nil]
    ELSE [todo |-> [t EXCEPT !.status = TodoStatusArchived,
                             !.updatedAt = clk],
          err |-> nil]

ArchiveTodo(t, clk) ==
    IF IsArchived(t) THEN [todo |-> t, err |-> "todo is already archived"]
    ELSE [todo |-> [t EXCEPT !.status = TodoStatusArchived,
                             !.updatedAt = clk],
          err |-> nil]

UpdateTitle(t, newTitle, clk) ==
    IF newTitle = <<>> THEN [todo |-> t, err |-> "title cannot be empty"]
    ELSE IF StrLen(newTitle) > MaxEntityTitleLen
         THEN [todo |-> t, err |-> "title cannot exceed 200 characters"]
    ELSE [todo |-> [t EXCEPT !.title = newTitle, !.updatedAt = clk],
          err |-> nil]

\* UpdateDescription that re-opens the todo it edits.
UpdateDescription_Reopens(t, newDescription, clk) ==
    IF StrLen(newDescription) > MaxEntityDescriptionLen
    THEN [todo |-> t, err |-> "description cannot exceed 1000 characters"]
    ELSE [todo |-> [t EXCEPT !.description = newDescription,
                             !.status = TodoStatusPending,
                             !.completedAt = <<>>,
                             !.updatedAt = clk],
          err |-> nil]

UpdateDescription(t, newDescription, clk) ==
    IF StrLen(newDescription) > MaxEntityDescriptionLen
    THEN [todo |-> t, err |-> "description cannot exceed 1000 characters"]
    ELSE [todo |-> [t EXCEPT !.description = newDescription,
                             !.updatedAt = clk],
          err |-> nil]

\* UpdatePriority that accepts the value but forgets to assign it.
UpdatePriority_NotAssigned(t, newPriority, clk) ==
    IF newPriority \in {TodoPriorityLow, TodoPriorityMedium, TodoPriorityHigh}
    THEN [todo |-> [t EXCEPT !.updatedAt = clk], err |-> nil]
    ELSE [todo |-> t, err |-> "invalid priority level"]

UpdatePriority(t, newPriority, clk) ==
    IF newPriority \in {TodoPriorityLow, TodoPriorityMedium, TodoPriorityHigh}
    THEN [todo |-> [t EXCEPT !.priority = newPriority, !.updatedAt = clk],
          err |-> nil]
    ELSE [todo |-> t, err |-> "invalid priority level"]

(***************************************************************************)
(* domain/model/error.go                                                   *)
(***************************************************************************)
DomainError(code, status, message) ==
    [errorCode |-> code, httpStatus |-> status, errorMessage |-> message]

NilErr == DomainError(0, 0, "")

ErrInvalidTitle == DomainError(1001, 400, "Invalid title")

ErrInvalidDescription == DomainError(1002, 400, "Invalid description")

ErrInvalidPriority == DomainError(1003, 400, "Invalid priority")

ErrEmptyTitle == DomainError(1004, 400, "Title cannot be empty")

ErrTitleTooLong == DomainError(1005, 400, "Title too long")

ErrTodoNotFound == DomainError(2001, 404, "Todo not found")

ErrCannotCompleteTodo == DomainError(3001, 400, "Cannot complete todo")

ErrCannotArchiveTodo == DomainError(3002, 400, "Cannot archive todo")

ErrRepositoryNotInitialized == DomainError(4001, 500, "Repository not initialized")

ErrFailedToSaveTodo == DomainError(4002, 500, "Failed to save todo")

ErrFailedToSaveCompletedTodo == DomainError(4003, 500, "Failed to save completed todo")

ErrFailedToSaveArchivedTodo == DomainError(4004, 500, "Failed to save archived todo")

ErrFailedToRetrieveTodos == DomainError(4005, 500, "Failed to retrieve todos")

(***************************************************************************)
(* domain/service: TodoDomainService                                       *)
(***************************************************************************)
MaxTitleLen == 100

MaxDescriptionLen == 1000

\* ValidateTitle with the entity's limit of 200 in place of 100.
ValidateTitle_EntityLimit(title) ==
    IF TrimSpace(title) = <<>> THEN ErrEmptyTitle
    ELSE IF StrLen(title) > MaxEntityTitleLen THEN ErrTitleTooLong
    ELSE NilErr

ValidateTitle(title) ==
    IF TrimSpace(title) = <<>> THEN ErrEmptyTitle
    ELSE IF StrLen(title) > MaxTitleLen THEN ErrTitleTooLong
    ELSE NilErr

ValidateDescription(description) ==
    IF StrLen(description) > MaxDescriptionLen THEN ErrInvalidDescription
    ELSE NilErr

ValidatePriority(priority) ==
    IF priority \in {"low", "medium", "high"} THEN NilErr
    ELSE ErrInvalidPriority

\* ValidateCreateTodoCommand that checks the description before the title.
ValidateCreateTodoCommand_DescriptionFirst(title, description, priority) ==
    IF ValidateDescription(description) # NilErr
    THEN ValidateDescription(description)
    ELSE IF ValidateTitle(title) # NilErr THEN ValidateTitle(title)
    ELSE IF ValidatePriority(priority) # NilErr
         THEN ValidatePriority(priority)
    ELSE NilErr

ValidateCreateTodoCommand(title, description, priority) ==
    IF ValidateTitle(title) # NilErr THEN ValidateTitle(title)
    ELSE IF ValidateDescription(description) # NilErr
         THEN ValidateDescription(description)
    ELSE IF ValidatePriority(priority) # NilErr
         THEN ValidatePriority(priority)
    ELSE NilErr

\* ValidateUpdateTodoCommand that leaves the title to the entity.
ValidateUpdateTodoCommand_SkipsTitle(title, description, priority) ==
    IF description # <<>> /\ ValidateDescription(description) # NilErr
    THEN ValidateDescription(description)
    ELSE IF priority # "" /\ ValidatePriority(priority) # NilErr
         THEN ValidatePriority(priority)
    ELSE NilErr

ValidateUpdateTodoCommand(title, description, priority) ==
    IF title # <<>> /\ ValidateTitle(title) # NilErr
    THEN ValidateTitle(title)
    ELSE IF description # <<>> /\ ValidateDescription(description) # NilErr
         THEN ValidateDescription(description)
    ELSE IF priority # "" /\ ValidatePriority(priority) # NilErr
         THEN ValidatePriority(priority)
    ELSE NilErr

(***************************************************************************)
(* application/model: response projections                                 *)
(***************************************************************************)
\* TodoResponseMapper that never copies completedAt.
TodoResponseMapper_NoCompletedAt(todo) ==
    [ID |-> todo.id, Title |-> todo.title, Description |-> todo.description,
     Status |-> todo.status, Priority |-> todo.priority,
     CreatedAt |-> todo.createdAt, CompletedAt |-> <<>>]

TodoResponseMapper(todo) ==
    [ID |-> todo.id, Title |-> todo.title, Description |-> todo.description,
     Status |-> todo.status, Priority |-> todo.priority,
     CreatedAt |-> todo.createdAt,
     CompletedAt |-> IF todo.completedAt # <<>> THEN todo.completedAt ELSE <<>>]

\* TodoListResponseMapper that appends to the slice it already sized with
\* make: len(todos) zero responses come first and Count is doubled.
TodoListResponseMapper_AppendAfterMake(list) ==
    [Todos |-> [i \in 1..Len(list) |->
                   [ID |-> "", Title |-> <<>>, Description |-> <<>>,
                    Status |-> "", Priority |-> "", CreatedAt |-> 0,
                    CompletedAt |-> <<>>]]
               \o [i \in 1..Len(list) |-> TodoResponseMapper(list[i])],
     Count |-> 2 * Len(list)]

TodoListResponseMapper(list) ==
    [Todos |-> [i \in 1..Len(list) |-> TodoResponseMapper(list[i])],
     Count |-> Len(list)]

(***************************************************************************)
(* infrastructure/repository: InMemoryTodoRepository                       *)
(* The map holds pointers: repo[id] is the object the map entry points to, *)
(* so a mutation through a pointer returned by FindByID is a change of     *)
(* repo[id] (InPlace).                                                     *)
(***************************************************************************)
NewInMemoryTodoRepository == << >>

\* sync.RWMutex: the holder of the write lock (<<>> when free) and the
\* holders of the read lock.
RWMutex(writer, readers) == [writer |-> writer, readers |-> readers]

Unlocked == RWMutex(<<>>, {})

\* Save that replaces the map by one holding only the saved todo.
Save_DropsOthers(repo, todo) ==
    [repo |-> [k \in {todo.id} |-> todo], err |-> nil]

Save(repo, todo) ==
    [repo |-> [k \in DOMAIN repo \cup {todo.id} |->
                  IF k = todo.id THEN todo ELSE repo[k]],
     err |-> nil]

FindByID(repo, id) ==
    IF id \in DOMAIN repo THEN [todo |-> <<repo[id]>>, err |-> nil]
    ELSE [todo |-> <<>>, err |-> "todo with id not found"]

\* Map iteration order is unspecified: every enumeration is a possible result.
FindAll(repo) ==
    {list \in [1..Cardinality(DOMAIN repo) -> {repo[k] : k \in DOMAIN repo}] :
        \A k \in DOMAIN repo : \E i \in DOMAIN list : list[i] = repo[k]}

\* Delete that reports success when the id is absent.
Delete_SilentWhenAbsent(repo, id) ==
    [repo |-> [k \in DOMAIN repo \ {id} |-> repo[k]], err |-> nil]

Delete(repo, id) ==
    IF id \notin DOMAIN repo
    THEN [repo |-> repo, err |-> "todo with id not found"]
    ELSE [repo |-> [k \in DOMAIN repo \ {id} |-> repo[k]], err |-> nil]

InPlace(repo, todo) == [repo EXCEPT ![todo.id] = todo]

(***************************************************************************)
(* application/port: TodoRepositoryPort                                    *)
(* A backend behaviour be says how the repository behind the port answers  *)
(* the calls of one use-case invocation:                                   *)
(*   isNil        the orchestrator was built with a nil repository         *)
(*   aliased      FindByID returns the stored pointer (in-memory backend); *)
(*                the relational backend returns a copy of the record      *)
(*   failSave, failFind, failFindAll                                       *)
(*                the call returns the backend's error (result.Error of    *)
(*                the relational backend, the error a test double returns) *)
(***************************************************************************)
Backend(isNil, aliased, failSave, failFind, failFindAll) ==
    [isNil |-> isNil, aliased |-> aliased, failSave |-> failSave,
     failFind |-> failFind, failFindAll |-> failFindAll]

InMemory == Backend(FALSE, TRUE, FALSE, FALSE, FALSE)

\* Save at time wclk.  The in-memory map keeps the pointer it is given.
\* PostgresTodoRepository.Save is r.db.Save(fromModel(todo)): gorm sets the
\* record's UpdatedAt to the time of the statement, and the table's trigger
\* update_todos_updated_at sets updated_at on every UPDATE, so the row holds
\* the time of the write whatever updatedAt the todo carried.
PortSave(repo, todo, be, wclk) ==
    IF be.failSave THEN [repo |-> repo, err |-> "db error"]
    ELSE IF be.aliased THEN Save(repo, todo)
    ELSE Save(repo, [todo EXCEPT !.updatedAt = wclk])

PortFindByID(repo, id, be) ==
    IF be.failFind THEN [todo |-> <<>>, err |-> "db error"]
    ELSE FindByID(repo, id)

PortFindAll(repo, be) ==
    IF be.failFindAll THEN {[list |-> <<>>, err |-> "db error"]}
    ELSE {[list |-> l, err |-> nil] : l \in FindAll(repo)}

\* PostgresTodoRepository.Delete: repo holds the rows the queries see, so
\* the soft-deleted row (deleted_at set) leaves it.  failed is result.Error
\* # nil; RowsAffected = 0 when no visible row has the id.
PortDelete(repo, id, failed) ==
    IF failed THEN [repo |-> repo, err |-> "db error"]
    ELSE Delete(repo, id)

\* The repository content after the caller changed a todo FindByID returned.
Held(repo, todo, be) == IF be.aliased THEN InPlace(repo, todo) ELSE repo

(***************************************************************************)
(* application/usecase: TodoUseCase                                        *)
(* A call made while no other call is in progress, as a function of the    *)
(* repository it starts from: the repository after the call, the returned  *)
(* values and the repository calls made, in order.  clk is what time.Now   *)
(* returned to the entity (to the last of its methods that read the clock) *)
(* and wclk the time of the write of Save.  The calls themselves, which    *)
(* other calls can overlap, are the steps further down.                    *)
(***************************************************************************)
Outcome(repo, err, rid, resp, calls) ==
    [repo |-> repo, err |-> err, rid |-> rid, resp |-> resp, calls |-> calls]

CreatePriority(p) ==
    IF p = "low" THEN TodoPriorityLow
    ELSE IF p = "high" THEN TodoPriorityHigh
    ELSE TodoPriorityMedium

\* CreateTodoUseCase that returns the new id together with the save error.
CreateTodoOn_IdWithSaveError(repo, cmd, newID, clk, wclk, be) ==
    LET verr == ValidateCreateTodoCommand(cmd.Title, cmd.Description, cmd.Priority)
        todo == NewTodo(newID, cmd.Title, cmd.Description,
                        CreatePriority(cmd.Priority), clk)
        s    == PortSave(repo, todo, be, wclk)
    IN  IF verr # NilErr THEN Outcome(repo, verr, "", <<>>, <<>>)
        ELSE IF s.err # nil
             THEN Outcome(s.repo, ErrFailedToSaveTodo, todo.id, <<>>, <<"Save">>)
        ELSE Outcome(s.repo, NilErr, todo.id, <<>>, <<"Save">>)

CreateTodoOn(repo, cmd, newID, clk, wclk, be) ==
    LET verr == ValidateCreateTodoCommand(cmd.Title, cmd.Description, cmd.Priority)
        todo == NewTodo(newID, cmd.Title, cmd.Description,
                        CreatePriority(cmd.Priority), clk)
        s    == PortSave(repo, todo, be, wclk)
    IN  IF verr # NilErr THEN Outcome(repo, verr, "", <<>>, <<>>)
        ELSE IF s.err # nil
             THEN Outcome(s.repo, ErrFailedToSaveTodo, "", <<>>, <<"Save">>)
        ELSE Outcome(s.repo, NilErr, todo.id, <<>>, <<"Save">>)

CreateTodoRun(repo, cmd, newID, clk) ==
    CreateTodoOn(repo, cmd, newID, clk, clk, InMemory)

UpdateTodoOn(repo, cmd, clk, wclk, be) ==
    LET verr == ValidateUpdateTodoCommand(cmd.Title, cmd.Description, cmd.Priority)
        f    == PortFindByID(repo, cmd.ID, be)
        t0   == f.todo[1]
        r1   == IF cmd.Title # <<>> THEN UpdateTitle(t0, cmd.Title, clk)
                ELSE [todo |-> t0, err |-> nil]
        r2   == IF cmd.Description # <<>>
                THEN UpdateDescription(r1.todo, cmd.Description, clk)
                ELSE [todo |-> r1.todo, err |-> nil]
        r3   == IF cmd.Priority # ""
                THEN UpdatePriority(r2.todo, cmd.Priority, clk)
                ELSE [todo |-> r2.todo, err |-> nil]
        s    == PortSave(Held(repo, r3.todo, be), r3.todo, be, wclk)
    IN  IF verr # NilErr THEN Outcome(repo, verr, "", <<>>, <<>>)
        ELSE IF f.err # nil
             THEN Outcome(repo, ErrTodoNotFound, "", <<>>, <<"FindByID">>)
        ELSE IF r1.err # nil
             THEN Outcome(Held(repo, r1.todo, be), ErrInvalidTitle, "", <<>>,
                          <<"FindByID">>)
        ELSE IF r2.err # nil
             THEN Outcome(Held(repo, r2.todo, be), ErrInvalidDescription, "",
                          <<>>, <<"FindByID">>)
        ELSE IF cmd.Priority # "" /\ cmd.Priority \notin {"low", "high", "medium"}
             THEN Outcome(Held(repo, r2.todo, be), ErrInvalidPriority, "", <<>>,
                          <<"FindByID">>)
        ELSE IF r3.err # nil
             THEN Outcome(Held(repo, r3.todo, be), ErrInvalidPriority, "", <<>>,
                          <<"FindByID">>)
        ELSE IF s.err # nil
             THEN Outcome(s.repo, ErrFailedToSaveTodo, "", <<>>,
                          <<"FindByID", "Save">>)
        ELSE Outcome(s.repo, NilErr, "", <<>>, <<"FindByID", "Save">>)

UpdateTodoRun(repo, cmd, clk) == UpdateTodoOn(repo, cmd, clk, clk, InMemory)

CompleteTodoOn(repo, id, clk, wclk, be) ==
    LET f == PortFindByID(repo, id, be)
        m == MarkAsCompleted(f.todo[1], clk)
        s == PortSave(Held(repo, m.todo, be), m.todo, be, wclk)
    IN  IF f.err # nil
        THEN Outcome(repo, ErrTodoNotFound, "", <<>>, <<"FindByID">>)
        ELSE IF m.err # nil
             THEN Outcome(Held(repo, m.todo, be), ErrCannotCompleteTodo, "",
                          <<>>, <<"FindByID">>)
        ELSE IF s.err # nil
             THEN Outcome(s.repo, ErrFailedToSaveCompletedTodo, "", <<>>,
                          <<"FindByID", "Save">>)
        ELSE Outcome(s.repo, NilErr, "", <<>>, <<"FindByID", "Save">>)

CompleteTodoRun(repo, id, clk) == CompleteTodoOn(repo, id, clk, clk, InMemory)

\* ArchiveTodoUseCase that removes the todo it archived from the repository.
ArchiveTodoOn_Deletes(repo, id, clk, wclk, be) ==
    LET f == PortFindByID(repo, id, be)
        m == ArchiveTodo(f.todo[1], clk)
    IN  IF f.err # nil
        THEN Outcome(repo, ErrTodoNotFound, "", <<>>, <<"FindByID">>)
        ELSE IF m.err # nil
             THEN Outcome(Held(repo, m.todo, be), ErrCannotArchiveTodo, "",
                          <<>>, <<"FindByID">>)
        ELSE Outcome(Delete(repo, id).repo, NilErr, "", <<>>,
                     <<"FindByID", "Delete">>)

ArchiveTodoOn(repo, id, clk, wclk, be) ==
    LET f == PortFindByID(repo, id, be)
        m == ArchiveTodo(f.todo[1], clk)
        s == PortSave(Held(repo, m.todo, be), m.todo, be, wclk)
    IN  IF f.err # nil
        THEN Outcome(repo, ErrTodoNotFound, "", <<>>, <<"FindByID">>)
        ELSE IF m.err # nil
             THEN Outcome(Held(repo, m.todo, be), ErrCannotArchiveTodo, "",
                          <<>>, <<"FindByID">>)
        ELSE IF s.err # nil
             THEN Outcome(s.repo, ErrFailedToSaveArchivedTodo, "", <<>>,
                          <<"FindByID", "Save">>)
        ELSE Outcome(s.repo, NilErr, "", <<>>, <<"FindByID", "Save">>)

\* ArchiveTodoUseCase that reports a missing todo as an illegal transition.
ArchiveTodoRun_WrongNotFound(repo, id, clk) ==
    LET f == FindByID(repo, id)
        m == ArchiveTodo(f.todo[1], clk)
        s == Save(InPlace(repo, m.todo), m.todo)
    IN  IF f.err # nil
        THEN Outcome(repo, ErrCannotArchiveTodo, "", <<>>, <<"FindByID">>)
        ELSE IF m.err # nil
             THEN Outcome(InPlace(repo, m.todo), ErrCannotArchiveTodo, "",
                          <<>>, <<"FindByID">>)
        ELSE Outcome(s.repo, NilErr, "", <<>>, <<"FindByID", "Save">>)

ArchiveTodoRun(repo, id, clk) == ArchiveTodoOn(repo, id, clk, clk, InMemory)

GetTodoOn(repo, id, be) ==
    LET f == PortFindByID(repo, id, be)
    IN  IF f.err # nil
        THEN Outcome(repo, ErrTodoNotFound, "", <<>>, <<"FindByID">>)
        ELSE Outcome(repo, NilErr, "", <<TodoResponseMapper(f.todo[1])>>,
                     <<"FindByID">>)

GetTodoRun(repo, id) == GetTodoOn(repo, id, InMemory)

\* fa is what FindAll returned: the slice and the error.
ListTodosOn(repo, fa, be) ==
    IF be.isNil
    THEN Outcome(repo, ErrRepositoryNotInitialized, "", <<>>, <<>>)
    ELSE IF fa.err # nil
         THEN Outcome(repo, ErrFailedToRetrieveTodos, "", <<>>, <<"FindAll">>)
    ELSE Outcome(repo, NilErr, "", <<TodoListResponseMapper(fa.list)>>,
                 <<"FindAll">>)

\* list is the slice FindAll returned (the in-memory FindAll never fails).
ListTodosRun(repo, list) ==
    ListTodosOn(repo, [list |-> list, err |-> nil], InMemory)

(***************************************************************************)
(* Inputs                                                                  *)
(***************************************************************************)
\* The identifiers the callers pass, and those uuid.NewString hands out:
\* "id2" is never generated, so it is never stored.
TodoIDs == {"id1", "id2"}

FreshIDs == {"id1"}

\* "", " \f", " b", a^100, a^101, "\f" a^99 " " (101 bytes, 99 after
\* trimming) and 51 times U+00E9 (51 characters, 102 bytes)
Titles ==
    {<<>>, << <<32, 1>>, <<12, 1>> >>, << <<32, 1>>, <<98, 1>> >>,
     Rep(97, 100), Rep(97, 101),
     << <<12, 1>>, <<97, 99>>, <<32, 1>> >>,
     Rep(233, 51)}

Descriptions == {<<>>, Rep(100, 1000), Rep(100, 1001)}

Priorities == {"", "low", "medium", "high", "urgent"}

Command(id, title, description, priority) ==
    [ID |-> id, Title |-> title, Description |-> description,
     Priority |-> priority]

CreateCommands ==
    {Command("", t, d, p) : t \in Titles, d \in Descriptions, p \in Priorities}

UpdateCommands ==
    {Command(id, c.Title, c.Description, c.Priority) :
        id \in TodoIDs, c \in CreateCommands}

Result(op, id, out) ==
    [op |-> op, id |-> id, err |-> out.err, rid |-> out.rid,
     resp |-> out.resp, calls |-> out.calls]

(***************************************************************************)
(* The state after construction, and the clock                             *)
(***************************************************************************)
\* The calls in progress, each on a goroutine of its own.
Running == DOMAIN procs

Init ==
    /\ todos = NewInMemoryTodoRepository
    /\ now = 0
    /\ last = Result("New", "", Outcome(todos, NilErr, "", <<>>, <<>>))
    /\ ent = <<>>
    /\ procs = <<>>
    /\ mu = Unlocked
    /\ before = <<>>

\* Time passes, whatever the goroutines are doing.
Tick ==
    /\ now < MaxClock
    /\ now' = now + 1
    /\ UNCHANGED <<todos, last, ent, procs, mu, before>>

(***************************************************************************)
(* One todo built by NewTodo and driven through its own methods            *)
(***************************************************************************)
\* "", "a", a^200, a^201, and U+00E9 100 times (200 bytes) and 101 times
\* (101 characters, 202 bytes)
EntityTitles ==
    {<<>>, Rep(97, 1), Rep(97, 200), Rep(97, 201), Rep(233, 100), Rep(233, 101)}

EntityDescriptions == {<<>>, Rep(100, 1000), Rep(100, 1001)}

EntityPriorities == {"low", "medium", "high", "urgent"}

EntityResult(op, r) ==
    [op |-> op, id |-> r.todo.id, err |-> r.err, rid |-> "", resp |-> <<>>,
     calls |-> <<>>]

EntityInit ==
    /\ todos = NewInMemoryTodoRepository
    /\ now = 0
    /\ \E t \in EntityTitles, de \in EntityDescriptions, p \in EntityPriorities :
          ent = NewTodo("id1", t, de, p, now)
    /\ last = EntityResult("NewTodo", [todo |-> ent, err |-> nil])
    /\ procs = <<>>
    /\ mu = Unlocked
    /\ before = <<>>

EntityStep(op, r) ==
    /\ ent' = r.todo
    /\ last' = EntityResult(op, r)
    /\ UNCHANGED <<todos, now, procs, mu, before>>

EntityMarkAsCompleted ==
    EntityStep("MarkAsCompleted", MarkAsCompleted(ent, now))

EntityMarkAsPending ==
    EntityStep("MarkAsPending", MarkAsPending(ent, now))

EntityArchiveTodo ==
    EntityStep("ArchiveTodo", ArchiveTodo(ent, now))

EntityUpdateTitle(t) ==
    EntityStep("UpdateTitle", UpdateTitle(ent, t, now))

EntityUpdateDescription(de) ==
    EntityStep("UpdateDescription", UpdateDescription(ent, de, now))

EntityUpdatePriority(p) ==
    EntityStep("UpdatePriority", UpdatePriority(ent, p, now))

EntityTick ==
    /\ now < MaxClock
    /\ now' = now + 1
    /\ last' = EntityResult("Tick", [todo |-> ent, err |-> nil])
    /\ UNCHANGED <<todos, ent, procs, mu, before>>

EntityNext ==
    \/ EntityMarkAsCompleted
    \/ EntityMarkAsPending
    \/ EntityArchiveTodo
    \/ \E t \in EntityTitles : EntityUpdateTitle(t)
    \/ \E de \in EntityDescriptions : EntityUpdateDescription(de)
    \/ \E p \in EntityPriorities : EntityUpdatePriority(p)
    \/ EntityTick

EntitySpec == EntityInit /\ [][EntityNext]_vars

(***************************************************************************)
(* Direct calls of the in-memory repository's four methods                 *)
(***************************************************************************)
RepoIDs == {"id1", "id2", "id3"}

\* The todos the callers hold and pass to Save.
RepoTodos ==
    {NewTodoFromData(id, t, <<>>, st, TodoPriorityMedium, 0, 0, <<>>) :
        id \in RepoIDs, t \in {Rep(97, 1), Rep(98, 1)},
        st \in {TodoStatusPending, TodoStatusArchived}}

RepoResult(op, id, repo, err, found) ==
    Result(op, id, Outcome(repo, err, "", found, <<op>>))

RepoInit ==
    /\ todos = NewInMemoryTodoRepository
    /\ now = 0
    /\ last = RepoResult("New", "", todos, nil, <<>>)
    /\ ent = <<>>
    /\ procs = <<>>
    /\ mu = Unlocked
    /\ before = <<>>

RepoSave(todo) ==
    /\ LET r == Save(todos, todo)
       IN  todos' = r.repo /\ last' = RepoResult("Save", todo.id, r.repo, r.err, <<>>)
    /\ UNCHANGED <<now, ent, procs, mu, before>>

RepoFindByID(id) ==
    /\ LET r == FindByID(todos, id)
       IN  last' = RepoResult("FindByID", id, todos, r.err, r.todo)
    /\ UNCHANGED <<todos, now, ent, procs, mu, before>>

RepoFindAll ==
    /\ \E list \in FindAll(todos) :
          last' = RepoResult("FindAll", "", todos, nil, <<list>>)
    /\ UNCHANGED <<todos, now, ent, procs, mu, before>>

RepoDelete(id) ==
    /\ LET r == Delete(todos, id)
       IN  todos' = r.repo /\ last' = RepoResult("Delete", id, r.repo, r.err, <<>>)
    /\ UNCHANGED <<now, ent, procs, mu, before>>

RepoNext ==
    \/ \E todo \in RepoTodos : RepoSave(todo)
    \/ \E id \in RepoIDs : RepoFindByID(id)
    \/ RepoFindAll
    \/ \E id \in RepoIDs : RepoDelete(id)

RepoSpec == RepoInit /\ [][RepoNext]_vars

(***************************************************************************)
(* Calls of the use cases.  net/http serves every request on a goroutine   *)
(* of its own (main.go:40), so a call is not one step: procs[p] is the     *)
(* goroutine p, the call it makes, its position pc in the code and its     *)
(* local variables, and a step is one access to what the goroutines share: *)
(* a lock operation, a map access, the read or write of one field of a     *)
(* stored todo, one SQL statement, or a reading of the clock.  The map     *)
(* assignment of Save is the read of the map followed by its write, both   *)
(* inside the write lock.  On the in-memory backend FindByID hands out the *)
(* stored pointer, so the entity's methods write the stored todo field by  *)
(* field; on the relational backend they work on the goroutine's copy of   *)
(* the row, and only the SELECT and the write of Save touch the table.     *)
(***************************************************************************)
\* The repository call a use case makes first goes to the backend's method.
FindEntry(be) == IF be.aliased THEN "FindByID.RLock" ELSE "db.First"

FindAllEntry(be) == IF be.aliased THEN "FindAll.RLock" ELSE "db.Find"

SaveEntry(be) == IF be.aliased THEN "Save.Lock" ELSE "db.Save"

\* The first line of each use case that touches shared memory or can return.
Entry(op, be) ==
    IF op \in {"Create", "Update"} THEN "start"
    ELSE IF op = "List" THEN "List.nil" ELSE FindEntry(be)

\* clk is the local variable now of MarkAsCompleted, or the value of
\* time.Now() about to be assigned; calls are the repository methods called.
Proc(op, id, cmd, be) ==
    [op |-> op, id |-> id, cmd |-> cmd, be |-> be, pc |-> Entry(op, be),
     clk |-> 0, new |-> <<>>, ptr |-> <<>>, keys |-> {}, err |-> NilErr,
     rid |-> "", resp |-> <<>>, list |-> <<>>, responses |-> <<>>,
     calls |-> <<>>]

At(p, pc) == p \in Running /\ procs[p].pc = pc

Goto(p, pc) == procs' = [procs EXCEPT ![p].pc = pc]

\* return err: the call of p ends with a domain error.
Return(p, err) == procs' = [procs EXCEPT ![p].pc = "done", ![p].err = err]

\* p enters the repository method named method and moves to pc.
Enter(p, method, pc) ==
    procs' = [procs EXCEPT ![p].pc = pc, ![p].calls = Append(@, method)]

\* now := time.Now(), or the evaluation of time.Now() on the right of an
\* assignment, which the store of the value follows.
ReadClock(p, pc) == procs' = [procs EXCEPT ![p].pc = pc, ![p].clk = now]

\* mutex.Lock without mutual exclusion.
CanLock_NoExclusion(m) == TRUE

\* mutex.Lock proceeds when nobody holds the lock.
CanLock(m) == m.writer = <<>> /\ m.readers = {}

\* mutex.RLock that does not wait for the writer.
CanRLock_IgnoresWriter(m) == TRUE

\* mutex.RLock proceeds when nobody holds the write lock.
CanRLock(m) == m.writer = <<>>

\* The todo p passes to Save: the one it built, or the stored one it found.
SavedTodo(p) ==
    IF procs[p].new # <<>> THEN procs[p].new[1] ELSE todos[procs[p].ptr[1]]

\* What the use case returns when Save failed.
SaveError(op) ==
    CASE op = "Complete" -> ErrFailedToSaveCompletedTodo
      [] op = "Archive"  -> ErrFailedToSaveArchivedTodo
      [] OTHER           -> ErrFailedToSaveTodo

\* InMemoryTodoRepository.Save, line by line.
SaveLock(p) ==
    /\ At(p, "Save.Lock")
    /\ CanLock(mu)
    /\ mu' = RWMutex(<<p>>, mu.readers)
    /\ Enter(p, "Save", "Save.load")
    /\ UNCHANGED <<todos, now, last, ent, before>>

SaveLoad(p) ==
    /\ At(p, "Save.load")
    /\ procs' = [procs EXCEPT ![p].pc = "Save.store", ![p].keys = DOMAIN todos]
    /\ UNCHANGED <<todos, now, last, ent, mu, before>>

SaveStore(p) ==
    /\ At(p, "Save.store")
    /\ todos' = Save([k \in procs[p].keys |-> todos[k]], SavedTodo(p)).repo
    /\ Goto(p, "Save.Unlock")
    /\ UNCHANGED <<now, last, ent, mu, before>>

\* defer r.mutex.Unlock(), then the caller's return of the identifier or nil.
SaveUnlock(p) ==
    /\ At(p, "Save.Unlock")
    /\ mu' = RWMutex(<<>>, mu.readers)
    /\ procs' = [procs EXCEPT ![p].pc = "done", ![p].err = NilErr,
                              ![p].rid = IF procs[p].op = "Create"
                                         THEN SavedTodo(p).id ELSE ""]
    /\ UNCHANGED <<todos, now, last, ent, before>>

\* PostgresTodoRepository.Save: fromModel and r.db.Save(record), one
\* statement that writes every column of the goroutine's todo, whatever
\* another call stored since the SELECT, at the time the clock shows now.
RowSave(p) ==
    /\ At(p, "db.Save")
    /\ LET s == PortSave(todos, procs[p].new[1], procs[p].be, now)
       IN  /\ todos' = s.repo
           /\ procs' = [procs EXCEPT
                  ![p].pc = "done",
                  ![p].calls = Append(@, "Save"),
                  ![p].err = IF s.err # nil THEN SaveError(procs[p].op)
                             ELSE NilErr,
                  ![p].rid = IF s.err = nil /\ procs[p].op = "Create"
                             THEN procs[p].new[1].id ELSE ""]
    /\ UNCHANGED <<now, last, ent, mu, before>>

SaveCall(p) ==
    \/ SaveLock(p)
    \/ SaveLoad(p)
    \/ SaveStore(p)
    \/ SaveUnlock(p)
    \/ RowSave(p)

\* CreateTodoUseCase, line by line.
CreateValidate(p) ==
    /\ At(p, "start")
    /\ procs[p].op = "Create"
    /\ LET c    == procs[p].cmd
           verr == ValidateCreateTodoCommand(c.Title, c.Description, c.Priority)
       IN  IF verr # NilErr THEN Return(p, verr) ELSE Goto(p, "NewTodo")
    /\ UNCHANGED <<todos, now, last, ent, mu, before>>

\* The identifiers uuid.NewString can still hand out: those no todo has.
Unused(ids) ==
    ids \ (DOMAIN todos \cup
             {procs[q].new[1].id : q \in {r \in Running : procs[r].new # <<>>}})

\* The priority switch and model.NewTodo(uuid.NewString(), ...), which reads
\* the clock once.
CreateNewTodo(p, newID) ==
    /\ At(p, "NewTodo")
    /\ LET c == procs[p].cmd
       IN  procs' = [procs EXCEPT
                ![p].pc = SaveEntry(procs[p].be),
                ![p].new = <<NewTodo(newID, c.Title, c.Description,
                                     CreatePriority(c.Priority), now)>>]
    /\ UNCHANGED <<todos, now, last, ent, mu, before>>

\* InMemoryTodoRepository.FindByID, line by line.
FindRLock(p) ==
    /\ At(p, "FindByID.RLock")
    /\ CanRLock(mu)
    /\ mu' = RWMutex(mu.writer, mu.readers \cup {p})
    /\ Enter(p, "FindByID", "FindByID.read")
    /\ UNCHANGED <<todos, now, last, ent, before>>

FindRead(p) ==
    /\ At(p, "FindByID.read")
    /\ procs' = [procs EXCEPT
             ![p].pc = "FindByID.RUnlock",
             ![p].ptr = IF procs[p].id \in DOMAIN todos
                        THEN <<procs[p].id>> ELSE <<>>]
    /\ UNCHANGED <<todos, now, last, ent, mu, before>>

\* The line of the use case that follows a successful FindByID.
AfterFind(op) ==
    CASE op = "Complete" -> "MarkAsCompleted.IsCompleted"
      [] op = "Archive"  -> "ArchiveTodo.IsArchived"
      [] op = "Update"   -> "Update.title"
      [] op = "Get"      -> "Mapper.ID"

\* defer r.mutex.RUnlock(), then the caller's test of the error.
FindRUnlock(p) ==
    /\ At(p, "FindByID.RUnlock")
    /\ mu' = RWMutex(mu.writer, mu.readers \ {p})
    /\ IF procs[p].ptr = <<>> THEN Return(p, ErrTodoNotFound)
       ELSE Goto(p, AfterFind(procs[p].op))
    /\ UNCHANGED <<todos, now, last, ent, before>>

\* The line of the use case that follows a successful FindByID of the
\* relational backend.
AfterRowFind(op) ==
    CASE op = "Complete" -> "Row.MarkAsCompleted"
      [] op = "Archive"  -> "Row.ArchiveTodo"
      [] op = "Update"   -> "Row.title"
      [] op = "Get"      -> "done"

\* PostgresTodoRepository.FindByID: r.db.First(&record, "id = ?", id) and
\* toModel.  The goroutine holds a copy of the row as the table has it now;
\* GetTodoUseCase maps the copy, which nobody else can reach.
RowFindByID(p) ==
    /\ At(p, "db.First")
    /\ LET f == PortFindByID(todos, procs[p].id, procs[p].be)
       IN  procs' = [procs EXCEPT
               ![p].calls = Append(@, "FindByID"),
               ![p].pc = IF f.err # nil THEN "done"
                         ELSE AfterRowFind(procs[p].op),
               ![p].err = IF f.err # nil THEN ErrTodoNotFound ELSE NilErr,
               ![p].new = f.todo,
               ![p].resp = IF f.err = nil /\ procs[p].op = "Get"
                           THEN <<TodoResponseMapper(f.todo[1])>> ELSE <<>>]
    /\ UNCHANGED <<todos, now, last, ent, mu, before>>

FindByIDCall(p) ==
    \/ FindRLock(p)
    \/ FindRead(p)
    \/ FindRUnlock(p)
    \/ RowFindByID(p)

\* The todo behind the pointer FindByID gave to p.
Target(p) == todos[procs[p].ptr[1]]

\* One assignment to a field of that todo.
Assign(p, t) == todos' = [todos EXCEPT ![procs[p].ptr[1]] = t]

\* MarkAsCompleted on the stored todo, line by line.
McIsCompleted(p) ==
    /\ At(p, "MarkAsCompleted.IsCompleted")
    /\ IF IsCompleted(Target(p)) THEN Return(p, ErrCannotCompleteTodo)
       ELSE Goto(p, "MarkAsCompleted.IsArchived")
    /\ UNCHANGED <<todos, now, last, ent, mu, before>>

McIsArchived(p) ==
    /\ At(p, "MarkAsCompleted.IsArchived")
    /\ IF IsArchived(Target(p)) THEN Return(p, ErrCannotCompleteTodo)
       ELSE Goto(p, "MarkAsCompleted.now")
    /\ UNCHANGED <<todos, now, last, ent, mu, before>>

\* now := time.Now()
McNow(p) ==
    /\ At(p, "MarkAsCompleted.now")
    /\ ReadClock(p, "MarkAsCompleted.status")
    /\ UNCHANGED <<todos, now, last, ent, mu, before>>

McStatus(p) ==
    /\ At(p, "MarkAsCompleted.status")
    /\ Assign(p, [Target(p) EXCEPT !.status = TodoStatusCompleted])
    /\ Goto(p, "MarkAsCompleted.completedAt")
    /\ UNCHANGED <<now, last, ent, mu, before>>

\* t.completedAt = &now
McCompletedAt(p) ==
    /\ At(p, "MarkAsCompleted.completedAt")
    /\ Assign(p, [Target(p) EXCEPT !.completedAt = <<procs[p].clk>>])
    /\ Goto(p, "MarkAsCompleted.updatedAt")
    /\ UNCHANGED <<now, last, ent, mu, before>>

\* t.updatedAt = now
McUpdatedAt(p) ==
    /\ At(p, "MarkAsCompleted.updatedAt")
    /\ Assign(p, [Target(p) EXCEPT !.updatedAt = procs[p].clk])
    /\ Goto(p, "Save.Lock")
    /\ UNCHANGED <<now, last, ent, mu, before>>

\* MarkAsCompleted on the goroutine's copy of the row: its one access to
\* what is shared is the reading of the clock.
RowMarkAsCompleted(p) ==
    /\ At(p, "Row.MarkAsCompleted")
    /\ LET m == MarkAsCompleted(procs[p].new[1], now)
       IN  IF m.err # nil THEN Return(p, ErrCannotCompleteTodo)
           ELSE procs' = [procs EXCEPT ![p].pc = "db.Save",
                                       ![p].new = <<m.todo>>]
    /\ UNCHANGED <<todos, now, last, ent, mu, before>>

MarkAsCompletedCall(p) ==
    \/ McIsCompleted(p)
    \/ McIsArchived(p)
    \/ McNow(p)
    \/ McStatus(p)
    \/ McCompletedAt(p)
    \/ McUpdatedAt(p)
    \/ RowMarkAsCompleted(p)

\* ArchiveTodo on the stored todo, line by line.
ArIsArchived(p) ==
    /\ At(p, "ArchiveTodo.IsArchived")
    /\ IF IsArchived(Target(p)) THEN Return(p, ErrCannotArchiveTodo)
       ELSE Goto(p, "ArchiveTodo.status")
    /\ UNCHANGED <<todos, now, last, ent, mu, before>>

ArStatus(p) ==
    /\ At(p, "ArchiveTodo.status")
    /\ Assign(p, [Target(p) EXCEPT !.status = TodoStatusArchived])
    /\ Goto(p, "ArchiveTodo.now")
    /\ UNCHANGED <<now, last, ent, mu, before>>

\* t.updatedAt = time.Now(): the call of time.Now, then the store.
ArNow(p) ==
    /\ At(p, "ArchiveTodo.now")
    /\ ReadClock(p, "ArchiveTodo.updatedAt")
    /\ UNCHANGED <<todos, now, last, ent, mu, before>>

ArUpdatedAt(p) ==
    /\ At(p, "ArchiveTodo.updatedAt")
    /\ Assign(p, [Target(p) EXCEPT !.updatedAt = procs[p].clk])
    /\ Goto(p, "Save.Lock")
    /\ UNCHANGED <<now, last, ent, mu, before>>

\* ArchiveTodo on the goroutine's copy of the row.
RowArchiveTodo(p) ==
    /\ At(p, "Row.ArchiveTodo")
    /\ LET m == ArchiveTodo(procs[p].new[1], now)
       IN  IF m.err # nil THEN Return(p, ErrCannotArchiveTodo)
           ELSE procs' = [procs EXCEPT ![p].pc = "db.Save",
                                       ![p].new = <<m.todo>>]
    /\ UNCHANGED <<todos, now, last, ent, mu, before>>

ArchiveTodoCall(p) ==
    \/ ArIsArchived(p)
    \/ ArStatus(p)
    \/ ArNow(p)
    \/ ArUpdatedAt(p)
    \/ RowArchiveTodo(p)

\* UpdateTodoUseCase, line by line: the validation, then for each of title,
\* description and priority the test of the command's field, the entity's
\* own check and assignment of the field, its call of time.Now and its
\* assignment of updatedAt.
UpdateValidate(p) ==
    /\ At(p, "start")
    /\ procs[p].op = "Update"
    /\ LET c    == procs[p].cmd
           verr == ValidateUpdateTodoCommand(c.Title, c.Description, c.Priority)
       IN  IF verr # NilErr THEN Return(p, verr)
           ELSE Goto(p, FindEntry(procs[p].be))
    /\ UNCHANGED <<todos, now, last, ent, mu, before>>

UpdateFields == {"title", "description", "priority"}

Supplied(cmd, f) ==
    CASE f = "title"       -> cmd.Title # <<>>
      [] f = "description" -> cmd.Description # <<>>
      [] f = "priority"    -> cmd.Priority # ""

Mutate(t, f, cmd, clk) ==
    CASE f = "title"       -> UpdateTitle(t, cmd.Title, clk)
      [] f = "description" -> UpdateDescription(t, cmd.Description, clk)
      [] f = "priority"    -> UpdatePriority(t, cmd.Priority, clk)

FieldError(f) ==
    CASE f = "title"       -> ErrInvalidTitle
      [] f = "description" -> ErrInvalidDescription
      [] f = "priority"    -> ErrInvalidPriority

FieldLine(f) ==
    CASE f = "title"       -> "Update.title"
      [] f = "description" -> "Update.description"
      [] f = "priority"    -> "Update.priority"

NowLine(f) ==
    CASE f = "title"       -> "Update.title.now"
      [] f = "description" -> "Update.description.now"
      [] f = "priority"    -> "Update.priority.now"

StampLine(f) ==
    CASE f = "title"       -> "Update.title.updatedAt"
      [] f = "description" -> "Update.description.updatedAt"
      [] f = "priority"    -> "Update.priority.updatedAt"

NextLine(f) ==
    CASE f = "title"       -> "Update.description"
      [] f = "description" -> "Update.priority"
      [] f = "priority"    -> "Save.Lock"

UpdateField(p, f) ==
    /\ At(p, FieldLine(f))
    /\ LET r == Mutate(Target(p), f, procs[p].cmd, now)
       IN  IF ~Supplied(procs[p].cmd, f)
           THEN Goto(p, NextLine(f)) /\ UNCHANGED todos
           ELSE IF r.err # nil
                THEN Return(p, FieldError(f)) /\ UNCHANGED todos
           ELSE /\ Assign(p, [r.todo EXCEPT !.updatedAt = Target(p).updatedAt])
                /\ Goto(p, NowLine(f))
    /\ UNCHANGED <<now, last, ent, mu, before>>

UpdateNow(p, f) ==
    /\ At(p, NowLine(f))
    /\ ReadClock(p, StampLine(f))
    /\ UNCHANGED <<todos, now, last, ent, mu, before>>

UpdateStamp(p, f) ==
    /\ At(p, StampLine(f))
    /\ Assign(p, [Target(p) EXCEPT !.updatedAt = procs[p].clk])
    /\ Goto(p, NextLine(f))
    /\ UNCHANGED <<now, last, ent, mu, before>>

RowFieldLine(f) ==
    CASE f = "title"       -> "Row.title"
      [] f = "description" -> "Row.description"
      [] f = "priority"    -> "Row.priority"

RowNextLine(f) ==
    CASE f = "title"       -> "Row.description"
      [] f = "description" -> "Row.priority"
      [] f = "priority"    -> "db.Save"

\* One field of the command on the goroutine's copy of the row: the entity
\* method reads the clock when it accepts the value.
RowUpdateField(p, f) ==
    /\ At(p, RowFieldLine(f))
    /\ LET r == Mutate(procs[p].new[1], f, procs[p].cmd, now)
       IN  IF ~Supplied(procs[p].cmd, f) THEN Goto(p, RowNextLine(f))
           ELSE IF r.err # nil THEN Return(p, FieldError(f))
           ELSE procs' = [procs EXCEPT ![p].pc = RowNextLine(f),
                                       ![p].new = <<r.todo>>]
    /\ UNCHANGED <<todos, now, last, ent, mu, before>>

\* TodoResponseMapper, getter by getter.
ZeroResponse ==
    [ID |-> "", Title |-> <<>>, Description |-> <<>>, Status |-> "",
     Priority |-> "", CreatedAt |-> 0, CompletedAt |-> <<>>]

MapperFields ==
    {"ID", "Title", "Description", "Status", "Priority", "CreatedAt"}

MapperLine(f) ==
    CASE f = "ID"          -> "Mapper.ID"
      [] f = "Title"       -> "Mapper.Title"
      [] f = "Description" -> "Mapper.Description"
      [] f = "Status"      -> "Mapper.Status"
      [] f = "Priority"    -> "Mapper.Priority"
      [] f = "CreatedAt"   -> "Mapper.CreatedAt"

MapperNext(f) ==
    CASE f = "ID"          -> "Mapper.Title"
      [] f = "Title"       -> "Mapper.Description"
      [] f = "Description" -> "Mapper.Status"
      [] f = "Status"      -> "Mapper.Priority"
      [] f = "Priority"    -> "Mapper.CreatedAt"
      [] f = "CreatedAt"   -> "Mapper.CompletedAt.nil"

Getter(t, f) ==
    CASE f = "ID"          -> t.id
      [] f = "Title"       -> t.title
      [] f = "Description" -> t.description
      [] f = "Status"      -> t.status
      [] f = "Priority"    -> t.priority
      [] f = "CreatedAt"   -> t.createdAt
      [] f = "UpdatedAt"   -> t.updatedAt
      [] f = "CompletedAt" -> t.completedAt

\* The response p is filling in.
Response(p) == IF procs[p].resp = <<>> THEN ZeroResponse ELSE procs[p].resp[1]

MapperRead(p, f) ==
    /\ At(p, MapperLine(f))
    /\ procs' = [procs EXCEPT
             ![p].pc = MapperNext(f),
             ![p].resp = <<[Response(p) EXCEPT ![f] = Getter(Target(p), f)]>>]
    /\ UNCHANGED <<todos, now, last, ent, mu, before>>

\* TodoResponseMapper returns response.  GetTodoUseCase returns it;
\* TodoListResponseMapper stores it in responses[i] and maps the next todo
\* of the slice or, after the last one, returns the list and its length.
MapperReturn(p, response) ==
    IF procs[p].op # "List"
    THEN procs' = [procs EXCEPT ![p].pc = "done", ![p].resp = <<response>>]
    ELSE LET responses == Append(procs[p].responses, response)
             rest      == Tail(procs[p].list)
         IN  IF rest # <<>>
             THEN procs' = [procs EXCEPT ![p].pc = "Mapper.ID",
                                         ![p].responses = responses,
                                         ![p].list = rest,
                                         ![p].ptr = <<rest[1]>>,
                                         ![p].resp = <<>>]
             ELSE procs' = [procs EXCEPT
                      ![p].pc = "done",
                      ![p].responses = responses,
                      ![p].list = rest,
                      ![p].resp = <<[Todos |-> responses,
                                     Count |-> Len(responses)]>>]

\* if todo.GetCompletedAt() != nil
MapperCompletedAtNil(p) ==
    /\ At(p, "Mapper.CompletedAt.nil")
    /\ IF Target(p).completedAt # <<>> THEN Goto(p, "Mapper.CompletedAt")
       ELSE MapperReturn(p, Response(p))
    /\ UNCHANGED <<todos, now, last, ent, mu, before>>

\* response.CompletedAt = todo.GetCompletedAt(), then return response
MapperCompletedAt(p) ==
    /\ At(p, "Mapper.CompletedAt")
    /\ MapperReturn(p, [Response(p) EXCEPT
                           !.CompletedAt = Target(p).completedAt])
    /\ UNCHANGED <<todos, now, last, ent, mu, before>>

MapperCall(p) ==
    \/ \E f \in MapperFields : MapperRead(p, f)
    \/ MapperCompletedAtNil(p)
    \/ MapperCompletedAt(p)

\* if uc.todoRepo == nil
ListNil(p) ==
    /\ At(p, "List.nil")
    /\ IF procs[p].be.isNil THEN Return(p, ErrRepositoryNotInitialized)
       ELSE Goto(p, FindAllEntry(procs[p].be))
    /\ UNCHANGED <<todos, now, last, ent, mu, before>>

\* InMemoryTodoRepository.FindAll, line by line: the slice holds the stored
\* pointers, in the order the map was iterated.
FindAllRLock(p) ==
    /\ At(p, "FindAll.RLock")
    /\ CanRLock(mu)
    /\ mu' = RWMutex(mu.writer, mu.readers \cup {p})
    /\ Enter(p, "FindAll", "FindAll.range")
    /\ UNCHANGED <<todos, now, last, ent, before>>

FindAllPointers(p) ==
    /\ At(p, "FindAll.range")
    /\ \E list \in FindAll(todos) :
          procs' = [procs EXCEPT
              ![p].pc = "FindAll.RUnlock",
              ![p].list = [i \in DOMAIN list |-> list[i].id]]
    /\ UNCHANGED <<todos, now, last, ent, mu, before>>

\* defer r.mutex.RUnlock(), then TodoListResponseMapper starts on the slice
\* (an empty slice gives the empty list at once).
FindAllRUnlock(p) ==
    /\ At(p, "FindAll.RUnlock")
    /\ mu' = RWMutex(mu.writer, mu.readers \ {p})
    /\ IF procs[p].list = <<>>
       THEN procs' = [procs EXCEPT
                ![p].pc = "done",
                ![p].resp = <<TodoListResponseMapper(<<>>)>>]
       ELSE procs' = [procs EXCEPT ![p].pc = "Mapper.ID",
                                   ![p].ptr = <<procs[p].list[1]>>]
    /\ UNCHANGED <<todos, now, last, ent, before>>

\* PostgresTodoRepository.FindAll: r.db.Find(&records) and toModel of every
\* row, then TodoListResponseMapper on the copies.
RowFindAll(p) ==
    /\ At(p, "db.Find")
    /\ \E fa \in PortFindAll(todos, procs[p].be) :
          procs' = [procs EXCEPT
              ![p].pc = "done",
              ![p].calls = Append(@, "FindAll"),
              ![p].err = IF fa.err # nil THEN ErrFailedToRetrieveTodos
                         ELSE NilErr,
              ![p].resp = IF fa.err # nil THEN <<>>
                          ELSE <<TodoListResponseMapper(fa.list)>>]
    /\ UNCHANGED <<todos, now, last, ent, mu, before>>

FindAllCall(p) ==
    \/ FindAllRLock(p)
    \/ FindAllPointers(p)
    \/ FindAllRUnlock(p)
    \/ RowFindAll(p)

\* The use cases, as run by goroutine p.  ids are the identifiers
\* uuid.NewString can hand out.
CreateTodoUseCase(p, ids) ==
    /\ p \in Running
    /\ procs[p].op = "Create"
    /\ \/ CreateValidate(p)
       \/ \E newID \in Unused(ids) : CreateNewTodo(p, newID)
       \/ SaveCall(p)

UpdateTodoUseCase(p) ==
    /\ p \in Running
    /\ procs[p].op = "Update"
    /\ \/ UpdateValidate(p)
       \/ FindByIDCall(p)
       \/ \E f \in UpdateFields :
              UpdateField(p, f) \/ UpdateNow(p, f) \/ UpdateStamp(p, f)
                \/ RowUpdateField(p, f)
       \/ SaveCall(p)

CompleteTodoUseCase(p) ==
    /\ p \in Running
    /\ procs[p].op = "Complete"
    /\ \/ FindByIDCall(p)
       \/ MarkAsCompletedCall(p)
       \/ SaveCall(p)

ArchiveTodoUseCase(p) ==
    /\ p \in Running
    /\ procs[p].op = "Archive"
    /\ \/ FindByIDCall(p)
       \/ ArchiveTodoCall(p)
       \/ SaveCall(p)

GetTodoUseCase(p) ==
    /\ p \in Running
    /\ procs[p].op = "Get"
    /\ \/ FindByIDCall(p)
       \/ MapperCall(p)

ListTodosUseCase(p) ==
    /\ p \in Running
    /\ procs[p].op = "List"
    /\ \/ ListNil(p)
       \/ FindAllCall(p)
       \/ MapperCall(p)

UseCase(p, ids) ==
    \/ CreateTodoUseCase(p, ids)
    \/ UpdateTodoUseCase(p)
    \/ CompleteTodoUseCase(p)
    \/ ArchiveTodoUseCase(p)
    \/ GetTodoUseCase(p)
    \/ ListTodosUseCase(p)

NoCommand == Command("", <<>>, <<>>, "")

\* The calls a client can make of an orchestrator built on backend be.
Calls(creates, updates, ids, be) ==
    {Proc("Create", "", c, be) : c \in creates}
      \cup {Proc("Update", c.ID, c, be) : c \in updates}
      \cup {Proc(op, id, NoCommand, be) :
               op \in {"Complete", "Archive", "Get"}, id \in ids}
      \cup {Proc("List", "", NoCommand, be)}

\* go func() { ... }() for each goroutine of calls, while no call is in
\* progress; before is the repository they start from.
Go(calls) ==
    /\ Running = {}
    /\ procs' = calls
    /\ before' = todos
    /\ last' = Result("Go", "", Outcome(todos, NilErr, "", <<>>, <<>>))
    /\ UNCHANGED <<todos, now, ent, mu>>

\* A client that makes one call at a time, each on the goroutine that
\* serves it.
Client == "main"

Request(c, ids) ==
    /\ c.op = "Create" => Unused(ids) # {}
    /\ Go([p \in {Client} |-> c])

\* The call of p returned to the client, which now has its results.
Respond(p) ==
    /\ At(p, "done")
    /\ last' = Result(procs[p].op, procs[p].id,
                      Outcome(todos, procs[p].err, procs[p].rid,
                              procs[p].resp, procs[p].calls))
    /\ procs' = [q \in Running \ {p} |-> procs[q]]
    /\ UNCHANGED <<todos, now, ent, mu, before>>

(***************************************************************************)
(* Sequential runs of the use cases on one in-memory repository: one       *)
(* client, whose next call starts when the last one returned.              *)
(***************************************************************************)
\* The commands the client sends: for a create " \f", a^100 or 51 times
\* U+00E9 with a description of 1000 or 1001 bytes, for an update no title,
\* " b" or a^101 with no description or one of 1001 bytes.
SpecCreateCommands ==
    {c \in CreateCommands :
        /\ c.Title \in {<< <<32, 1>>, <<12, 1>> >>, Rep(97, 100), Rep(233, 51)}
        /\ c.Description \in {Rep(100, 1000), Rep(100, 1001)}
        /\ c.Priority \in {"", "low", "urgent"}}

SpecUpdateCommands ==
    {c \in UpdateCommands :
        /\ c.Title \in {<<>>, << <<32, 1>>, <<98, 1>> >>, Rep(97, 101)}
        /\ c.Description \in {<<>>, Rep(100, 1001)}
        /\ c.Priority \in {"", "high", "urgent"}}

Next ==
    \/ \E c \in Calls(SpecCreateCommands, SpecUpdateCommands, TodoIDs, InMemory) :
           Request(c, FreshIDs)
    \/ UseCase(Client, FreshIDs)
    \/ Respond(Client)
    \/ Tick

Spec == Init /\ [][Next]_vars

(***************************************************************************)
(* Sequential runs of the use cases on one in-memory repository that can   *)
(* hold several todos (few command values, every identifier can be issued) *)
(***************************************************************************)
ManyCreateCommands ==
    {Command("", Rep(97, 1), <<>>, p) : p \in {"low", "urgent"}}

ManyUpdateCommands ==
    {Command(id, t, <<>>, "") : id \in TodoIDs, t \in {Rep(98, 1), Rep(97, 101)}}

ManyNext ==
    \/ \E c \in Calls(ManyCreateCommands, ManyUpdateCommands, TodoIDs, InMemory) :
           Request(c, TodoIDs)
    \/ UseCase(Client, TodoIDs)
    \/ Respond(Client)
    \/ Tick

ManySpec == Init /\ [][ManyNext]_vars

(***************************************************************************)
(* Three goroutines create todos at the same time.                         *)
(***************************************************************************)
ConcIDs == {"id1", "id2", "id3"}

Creators == {"p1", "p2", "p3"}

ConcCreateCommands ==
    {Command("", Rep(97, 1), <<>>, p) : p \in {"low", "high", "urgent"}}

CreatorsInit ==
    /\ todos = NewInMemoryTodoRepository
    /\ now = 0
    /\ last = Result("New", "", Outcome(todos, NilErr, "", <<>>, <<>>))
    /\ ent = <<>>
    /\ mu = Unlocked
    /\ before = <<>>
    /\ \E cmds \in [Creators -> ConcCreateCommands] :
          procs = [p \in Creators |-> Proc("Create", "", cmds[p], InMemory)]

CreatorsNext ==
    \/ \E p \in Creators : CreateTodoUseCase(p, ConcIDs)
    \/ Tick

CreatorsSpec == CreatorsInit /\ [][CreatorsNext]_vars

(***************************************************************************)
(* Two goroutines call the orchestrator at the same time, after a          *)
(* sequential start in which the todos they address may have been created, *)
(* completed or archived.  The clock runs all the while.                   *)
(***************************************************************************)
Workers == {"w1", "w2"}

WorkerCommands ==
    {Command("id1", Rep(98, 1), <<>>, "high"),
     Command("id1", <<>>, Rep(100, 1), ""),
     Command("id1", Rep(97, 101), <<>>, "")}

WorkerCalls(be) ==
    {Proc(op, "id1", NoCommand, be) : op \in {"Get", "Complete", "Archive"}}
    \cup {Proc("List", "", NoCommand, be)}
    \cup {Proc("Update", c.ID, c, be) : c \in WorkerCommands}

SetupCalls(be) ==
    {Proc("Create", "", Command("", Rep(97, 1), <<>>, "low"), be),
     Proc("Complete", "id1", NoCommand, be),
     Proc("Archive", "id1", NoCommand, be)}

WorkersInit == Init

WorkersSetup == \E c \in SetupCalls(InMemory) : Request(c, TodoIDs)

WorkersNext ==
    \/ WorkersSetup
    \/ \E calls \in [Workers -> WorkerCalls(InMemory)] : Go(calls)
    \/ \E p \in Workers \cup {Client} : UseCase(p, TodoIDs)
    \/ Respond(Client)
    \/ Tick

WorkersSpec == WorkersInit /\ [][WorkersNext]_vars

(***************************************************************************)
(* Sequential runs of the use cases on the relational backend, where every *)
(* call of the repository can return result.Error, and on an orchestrator  *)
(* built with a nil repository.                                            *)
(***************************************************************************)
PortTitles == {<<>>, Rep(97, 1), Rep(97, 101)}

PortDescriptions == {<<>>, Rep(100, 1001)}

PortPriorities == {"", "low", "urgent"}

PortCreateCommands ==
    {Command("", t, d, p) :
        t \in PortTitles, d \in PortDescriptions, p \in PortPriorities}

PortUpdateCommands ==
    {Command(id, c.Title, c.Description, c.Priority) :
        id \in TodoIDs, c \in PortCreateCommands}

\* The relational backend: FindByID returns a copy, every call may fail.
PortBackends ==
    {Backend(FALSE, FALSE, s, f, a) : s \in BOOLEAN, f \in BOOLEAN, a \in BOOLEAN}

\* NewTodoUseCase(nil)
NilRepository == Backend(TRUE, FALSE, FALSE, FALSE, FALSE)

Relational == Backend(FALSE, FALSE, FALSE, FALSE, FALSE)

PortInit == Init

\* A caller of the port other than the orchestrator deletes a todo.
PortDeleteTodo(id, failed) ==
    /\ Running = {}
    /\ LET r == PortDelete(todos, id, failed)
       IN  todos' = r.repo
           /\ last' = RepoResult("Delete", id, r.repo, r.err, <<>>)
    /\ UNCHANGED <<now, ent, procs, mu, before>>

PortCalls ==
    UNION {Calls(PortCreateCommands, PortUpdateCommands, TodoIDs, be) :
              be \in PortBackends}
      \cup {Proc("List", "", NoCommand, NilRepository)}

PortNext ==
    \/ \E c \in PortCalls : Request(c, FreshIDs)
    \/ UseCase(Client, FreshIDs)
    \/ Respond(Client)
    \/ \E id \in TodoIDs, failed \in BOOLEAN : PortDeleteTodo(id, failed)
    \/ Tick

PortSpec == PortInit /\ [][PortNext]_vars

(***************************************************************************)
(* Concurrent calls of the use cases on the relational backend.  A call    *)
(* that changes a todo is two statements with no transaction around them,  *)
(* the SELECT of FindByID and the write of Save; another call's statements *)
(* and the clock's ticks can fall between them.                            *)
(***************************************************************************)
RowCalls ==
    {c \in WorkerCalls(Relational) : c.op \in {"Complete", "Archive", "Update"}}

RowSetup == \E c \in SetupCalls(Relational) : Request(c, FreshIDs)

RowNext ==
    \/ RowSetup
    \/ \E calls \in [Workers -> RowCalls] : Go(calls)
    \/ \E p \in Workers \cup {Client} :
           \/ CreateTodoUseCase(p, FreshIDs)
           \/ UpdateTodoUseCase(p)
           \/ CompleteTodoUseCase(p)
           \/ ArchiveTodoUseCase(p)
    \/ Respond(Client)
    \/ Tick

RowSpec == PortInit /\ [][RowNext]_vars

(***************************************************************************)
(* Concurrent callers of the in-memory repository's own methods.  Each     *)
(* goroutine makes one call; procs[p] is the call, its position pc (Lock   *)
(* or RLock, the map access, Unlock or RUnlock, done) and what it returns. *)
(* The deferred Unlock / RUnlock runs on every return path.                *)
(***************************************************************************)
Writes == {"Save", "Delete"}

Reads == {"FindByID", "FindAll"}

Call(op, id, todo) ==
    [op |-> op, id |-> id, todo |-> todo,
     pc |-> IF op \in Writes THEN "Lock" ELSE "RLock",
     found |-> <<>>, list |-> <<>>, err |-> nil]

\* r.mutex.Lock()
MutexLock(p) ==
    /\ At(p, "Lock")
    /\ CanLock(mu)
    /\ mu' = RWMutex(<<p>>, mu.readers)
    /\ Goto(p, "map")
    /\ UNCHANGED <<todos, now, last, ent, before>>

\* r.mutex.RLock()
MutexRLock(p) ==
    /\ At(p, "RLock")
    /\ CanRLock(mu)
    /\ mu' = RWMutex(mu.writer, mu.readers \cup {p})
    /\ Goto(p, "map")
    /\ UNCHANGED <<todos, now, last, ent, before>>

\* r.todos[todo.GetID()] = todo
SaveAssign(p) ==
    /\ At(p, "map")
    /\ procs[p].op = "Save"
    /\ todos' = Save(todos, procs[p].todo[1]).repo
    /\ Goto(p, "Unlock")
    /\ UNCHANGED <<now, last, ent, mu, before>>

\* todo, exists := r.todos[id]
FindByIDLookup(p) ==
    /\ At(p, "map")
    /\ procs[p].op = "FindByID"
    /\ LET r == FindByID(todos, procs[p].id)
       IN  procs' = [procs EXCEPT ![p].pc = "RUnlock", ![p].found = r.todo,
                                  ![p].err = r.err]
    /\ UNCHANGED <<todos, now, last, ent, mu, before>>

\* for _, todo := range r.todos
FindAllRange(p) ==
    /\ At(p, "map")
    /\ procs[p].op = "FindAll"
    /\ \E list \in FindAll(todos) :
          procs' = [procs EXCEPT ![p].pc = "RUnlock", ![p].list = <<list>>]
    /\ UNCHANGED <<todos, now, last, ent, mu, before>>

\* Delete whose not-found return leaves the lock held.
DeleteLookup_ReturnsLocked(p) ==
    /\ At(p, "map")
    /\ procs[p].op = "Delete"
    /\ LET r == Delete(todos, procs[p].id)
       IN  IF r.err # nil
           THEN procs' = [procs EXCEPT ![p].pc = "done", ![p].err = r.err]
           ELSE Goto(p, "delete")
    /\ UNCHANGED <<todos, now, last, ent, mu, before>>

\* if _, exists := r.todos[id]; !exists
DeleteLookup(p) ==
    /\ At(p, "map")
    /\ procs[p].op = "Delete"
    /\ LET r == Delete(todos, procs[p].id)
       IN  IF r.err # nil
           THEN procs' = [procs EXCEPT ![p].pc = "Unlock", ![p].err = r.err]
           ELSE Goto(p, "delete")
    /\ UNCHANGED <<todos, now, last, ent, mu, before>>

\* delete(r.todos, id)
DeleteRemove(p) ==
    /\ At(p, "delete")
    /\ todos' = Delete(todos, procs[p].id).repo
    /\ Goto(p, "Unlock")
    /\ UNCHANGED <<now, last, ent, mu, before>>

\* defer r.mutex.Unlock(), then the return
MutexUnlock(p) ==
    /\ At(p, "Unlock")
    /\ mu' = RWMutex(<<>>, mu.readers)
    /\ Goto(p, "done")
    /\ UNCHANGED <<todos, now, last, ent, before>>

\* defer r.mutex.RUnlock(), then the return
MutexRUnlock(p) ==
    /\ At(p, "RUnlock")
    /\ mu' = RWMutex(mu.writer, mu.readers \ {p})
    /\ Goto(p, "done")
    /\ UNCHANGED <<todos, now, last, ent, before>>

Callers == {"c1", "c2", "c3"}

\* The todo already stored when the callers start, and the one they save.
LockStored == NewTodoFromData("id1", Rep(97, 1), <<>>, TodoStatusPending, TodoPriorityLow, 0, 0, <<>>)

LockSaved == NewTodoFromData("id2", Rep(98, 1), <<>>, TodoStatusPending, TodoPriorityLow, 0, 0, <<>>)

LockCalls ==
    {Call("Save", "id2", <<LockSaved>>), Call("FindAll", "", <<>>)}
      \cup {Call(op, id, <<>>) : op \in {"FindByID", "Delete"}, id \in TodoIDs}

LockInit ==
    /\ todos \in {NewInMemoryTodoRepository,
                  Save(NewInMemoryTodoRepository, LockStored).repo}
    /\ now = 0
    /\ last = Result("Go", "", Outcome(todos, NilErr, "", <<>>, <<>>))
    /\ ent = <<>>
    /\ procs \in [Callers -> LockCalls]
    /\ mu = Unlocked
    /\ before = todos

CallStep(p) ==
    \/ MutexLock(p)
    \/ MutexRLock(p)
    \/ SaveAssign(p)
    \/ FindByIDLookup(p)
    \/ FindAllRange(p)
    \/ DeleteLookup(p)
    \/ DeleteRemove(p)
    \/ MutexUnlock(p)
    \/ MutexRUnlock(p)

LockNext == \E p \in Callers : CallStep(p)

LockSpec == LockInit /\ [][LockNext]_vars

\* The Go scheduler runs every goroutine that can take a step.
FairLockSpec == LockSpec /\ \A p \in Callers : WF_vars(CallStep(p))

(***************************************************************************)
(* domain/model/error_response.go and the HTTP adapter's error writer.     *)
(* Here ent is the domain error handed to the adapter and last is what the *)
(* adapter wrote.  details is a function from strings to strings, <<>> for *)
(* nil.  A JSON body is the function from its keys to their values.        *)
(***************************************************************************)
NewDomainError(errorCode, httpStatus, errorMessage, internalReason, details) ==
    [errorCode |-> errorCode, httpStatus |-> httpStatus,
     errorMessage |-> errorMessage, internalReason |-> internalReason,
     details |-> details]

ToResponse(e) ==
    [ErrorCode |-> e.errorCode, HttpStatus |-> e.httpStatus,
     ErrorMessage |-> e.errorMessage, InternalReason |-> e.internalReason,
     Details |-> e.details]

ToResponseWithInternal(e, includeInternal) ==
    [ErrorCode |-> e.errorCode, HttpStatus |-> e.httpStatus,
     ErrorMessage |-> e.errorMessage,
     InternalReason |-> IF includeInternal THEN e.internalReason ELSE "",
     Details |-> e.details]

\* json.NewEncoder(w).Encode of a DomainErrorResponse: internal-reason and
\* details are omitempty.
EncodeJSON(resp) ==
    LET keys == {"error-code", "http-status", "error-message"}
                \cup (IF resp.InternalReason # "" THEN {"internal-reason"} ELSE {})
                \cup (IF DOMAIN resp.Details # {} THEN {"details"} ELSE {})
    IN  [k \in keys |->
            CASE k = "error-code"      -> resp.ErrorCode
              [] k = "http-status"     -> resp.HttpStatus
              [] k = "error-message"   -> resp.ErrorMessage
              [] k = "internal-reason" -> resp.InternalReason
              [] k = "details"         -> resp.Details]

writeDomainError(err) ==
    [op |-> "writeDomainError", status |-> err.httpStatus,
     body |-> EncodeJSON(ToResponse(err))]

\* A DomainErrorPort that is not a *DomainError: another implementation of
\* the interface, given by what its getters and its Error method return.
OtherError(errorCode, httpStatus, errorMessage, internalReason, error) ==
    [impl |-> "other", errorCode |-> errorCode, httpStatus |-> httpStatus,
     errorMessage |-> errorMessage, internalReason |-> internalReason,
     details |-> <<>>, error |-> error]

\* de, ok := domainError.(*model.DomainError)
IsDomainError(domainError) == "impl" \notin DOMAIN domainError

ErrorResponseMapper(domainError) ==
    IF IsDomainError(domainError) THEN ToResponse(domainError)
    ELSE [ErrorCode |-> 9999, HttpStatus |-> 500,
          ErrorMessage |-> domainError.error,
          InternalReason |-> "Unknown error type", Details |-> <<>>]

ErrorResponseMapperWithInternal(domainError, includeInternal) ==
    IF IsDomainError(domainError)
    THEN ToResponseWithInternal(domainError, includeInternal)
    ELSE [ErrorCode |-> 9999, HttpStatus |-> 500,
          ErrorMessage |-> domainError.error,
          InternalReason |-> IF includeInternal THEN "Unknown error type"
                             ELSE "",
          Details |-> <<>>]

InternalReasons ==
    {"", "Title validation failed", "Database save operation failed"}

\* Catalogue errors, and errors NewDomainError builds from their code,
\* status and message with another internalReason or with details.
DomainErrors ==
    {NewDomainError(b.errorCode, b.httpStatus, b.errorMessage, r, de) :
        b \in {ErrInvalidTitle, ErrEmptyTitle, ErrTodoNotFound,
               ErrCannotCompleteTodo, ErrFailedToSaveTodo,
               ErrFailedToRetrieveTodos},
        r \in InternalReasons, de \in {<<>>, [test |-> "true"]}}

OtherErrors ==
    {OtherError(7, 418, "teapot", r, "boom") : r \in {"", "kettle"}}

\* The values of the interface type DomainErrorPort.
DomainErrorPorts == DomainErrors \cup OtherErrors

ErrorInit ==
    /\ todos = NewInMemoryTodoRepository
    /\ now = 0
    /\ ent \in DomainErrorPorts
    /\ last = [op |-> "New", status |-> 0, body |-> <<>>]
    /\ procs = <<>>
    /\ mu = Unlocked
    /\ before = <<>>

\* A handler got err from the orchestrator, which returns *DomainError, and
\* writes it.
HandleError ==
    /\ IsDomainError(ent)
    /\ last' = writeDomainError(ent)
    /\ UNCHANGED <<todos, now, ent, procs, mu, before>>

\* A caller of the application-level mappers; the second chooses
\* includeInternal.
MapError ==
    /\ LET resp == ErrorResponseMapper(ent)
       IN  last' = [op |-> "ErrorResponseMapper", status |-> resp.HttpStatus,
                    body |-> EncodeJSON(resp)]
    /\ UNCHANGED <<todos, now, ent, procs, mu, before>>

MapErrorWithInternal(includeInternal) ==
    /\ LET resp == ErrorResponseMapperWithInternal(ent, includeInternal)
       IN  last' = [op |-> "ErrorResponseMapperWithInternal",
                    status |-> resp.HttpStatus, body |-> EncodeJSON(resp)]
    /\ UNCHANGED <<todos, now, ent, procs, mu, before>>

\* The next request fails with another error.
NextError(e) ==
    /\ ent' = e
    /\ last' = [op |-> "New", status |-> 0, body |-> <<>>]
    /\ UNCHANGED <<todos, now, procs, mu, before>>

ErrorNext ==
    \/ HandleError
    \/ MapError
    \/ \E includeInternal \in BOOLEAN : MapErrorWithInternal(includeInternal)
    \/ \E e \in DomainErrorPorts : NextError(e)

ErrorSpec == ErrorInit /\ [][ErrorNext]_vars

(***************************************************************************)
(* Reconstruction of a todo from persisted data.  Here ent is the stored   *)
(* record (postgres.TodoRecord) and last.todo the todo built from it.      *)
(***************************************************************************)
NewTodoWithAllFields(id, title, description, status, priority, createdAt, updatedAt, completedAt) ==
    [id |-> id, title |-> title, description |-> description,
     status |-> TodoStatusPending, priority |-> priority,
     createdAt |-> createdAt, updatedAt |-> updatedAt,
     completedAt |-> completedAt]

TodoRecord(id, title, description, priority, status, createdAt, updatedAt, completedAt) ==
    [ID |-> id, Title |-> title, Description |-> description,
     Priority |-> priority, Status |-> status, CreatedAt |-> createdAt,
     UpdatedAt |-> updatedAt, CompletedAt |-> completedAt]

fromModel(todo) ==
    TodoRecord(Getter(todo, "ID"), Getter(todo, "Title"),
               Getter(todo, "Description"), Getter(todo, "Priority"),
               Getter(todo, "Status"), Getter(todo, "CreatedAt"),
               Getter(todo, "UpdatedAt"), Getter(todo, "CompletedAt"))

toModel(r) ==
    NewTodoFromData(r.ID, r.Title, r.Description, r.Status, r.Priority,
                    r.CreatedAt, r.UpdatedAt, r.CompletedAt)

\* toModel, had it been written with the other all-fields constructor.
toModelWithAllFields(r) ==
    NewTodoWithAllFields(r.ID, r.Title, r.Description, r.Status, r.Priority,
                         r.CreatedAt, r.UpdatedAt, r.CompletedAt)

\* The rows a table can hold: the columns are not constrained, so a row can
\* carry an empty title, an unknown status or a completedAt on a pending todo.
TodoRecords ==
    {TodoRecord(id, t, <<>>, p, st, c, u, co) :
        id \in TodoIDs, t \in {<<>>, Rep(97, 1)}, p \in {"low", "urgent"},
        st \in {TodoStatusPending, TodoStatusCompleted, TodoStatusArchived, ""},
        c \in {0, 1}, u \in {0, 1}, co \in {<<>>, <<0>>, <<1>>}}

Rebuilt(op, todo) == [op |-> op, todo |-> todo]

ReconstructInit ==
    /\ todos = NewInMemoryTodoRepository
    /\ now = 0
    /\ ent \in TodoRecords
    /\ last = Rebuilt("New", <<>>)
    /\ procs = <<>>
    /\ mu = Unlocked
    /\ before = <<>>

ReconstructFromData ==
    /\ last' = Rebuilt("NewTodoFromData", <<toModel(ent)>>)
    /\ UNCHANGED <<todos, now, ent, procs, mu, before>>

ReconstructWithAllFields ==
    /\ last' = Rebuilt("NewTodoWithAllFields", <<toModelWithAllFields(ent)>>)
    /\ UNCHANGED <<todos, now, ent, procs, mu, before>>

\* The todo just built is written back, and the row it gives is read next.
StoreRebuilt ==
    /\ last.todo # <<>>
    /\ ent' = fromModel(last.todo[1])
    /\ last' = Rebuilt("fromModel", <<>>)
    /\ UNCHANGED <<todos, now, procs, mu, before>>

ReconstructNext ==
    \/ ReconstructFromData
    \/ ReconstructWithAllFields
    \/ StoreRebuilt

ReconstructSpec == ReconstructInit /\ [][ReconstructNext]_vars

(***************************************************************************)
(* The validation service applied to one command.  Here ent is the command *)
(* and last is the error the service returned for it.                      *)
(***************************************************************************)
\* Titles made of, or padded with, white space other than the blank: "\f",
\* "\v", a no-break space, an ideographic space, "\fa\f", NEL "b" and a
\* no-break space followed by a^98 (100 bytes) and by a^99 (101 bytes).
SpacedTitles ==
    {Rep(12, 1), Rep(11, 1), Rep(160, 1), Rep(12288, 2),
     << <<12, 1>>, <<97, 1>>, <<12, 1>> >>,
     << <<133, 1>>, <<98, 1>> >>,
     << <<160, 1>>, <<97, 98>> >>,
     << <<160, 1>>, <<97, 99>> >>}

\* Titles of characters whose UTF-8 encoding takes two, three and four
\* bytes (U+00E9, U+20AC, U+1F600): 100 bytes and the next length up.
WideTitles ==
    {Rep(233, 50), Rep(233, 51), Rep(8364, 33), Rep(8364, 34),
     Rep(128512, 25), Rep(128512, 26)}

\* 1000 bytes and 1002 bytes in 500 and 501 characters.
WideDescriptions == {<<>>, Rep(233, 500), Rep(233, 501)}

ValidateCommands ==
    CreateCommands
      \cup {Command("", t, <<>>, p) : t \in SpacedTitles, p \in {"low", "urgent"}}
      \cup {Command("", t, d, "low") : t \in WideTitles, d \in WideDescriptions}

ValidateInit ==
    /\ todos = NewInMemoryTodoRepository
    /\ now = 0
    /\ ent \in ValidateCommands
    /\ last = [op |-> "New", err |-> NilErr]
    /\ procs = <<>>
    /\ mu = Unlocked
    /\ before = <<>>

ValidateCreate ==
    /\ last' = [op |-> "ValidateCreateTodoCommand",
                err |-> ValidateCreateTodoCommand(ent.Title, ent.Description,
                                                  ent.Priority)]
    /\ UNCHANGED <<todos, now, ent, procs, mu, before>>

ValidateUpdate ==
    /\ last' = [op |-> "ValidateUpdateTodoCommand",
                err |-> ValidateUpdateTodoCommand(ent.Title, ent.Description,
                                                  ent.Priority)]
    /\ UNCHANGED <<todos, now, ent, procs, mu, before>>

\* The next command arrives.
NextCommand(cmd) ==
    /\ ent' = cmd
    /\ last' = [op |-> "New", err |-> NilErr]
    /\ UNCHANGED <<todos, now, procs, mu, before>>

ValidateNext ==
    \/ ValidateCreate
    \/ ValidateUpdate
    \/ \E cmd \in ValidateCommands : NextCommand(cmd)

ValidateSpec == ValidateInit /\ [][ValidateNext]_vars

(***************************************************************************)
(* Claims                                                                  *)
(***************************************************************************)
Stored == DOMAIN todos

\* No call is in progress: the repository is as the calls so far left it.
Idle == Running = {}

\* What the call pr returns, and the repository it leaves, when it is made
\* alone on repo: newID is the identifier uuid.NewString hands out, clk and
\* wclk the readings of the clock, fa what FindAll returns.
SeqCall(repo, pr, newID, clk, wclk, fa) ==
    CASE pr.op = "Create"   ->
            CreateTodoOn(repo, pr.cmd, newID, clk, wclk, pr.be)
      [] pr.op = "Update"   -> UpdateTodoOn(repo, pr.cmd, clk, wclk, pr.be)
      [] pr.op = "Complete" -> CompleteTodoOn(repo, pr.id, clk, wclk, pr.be)
      [] pr.op = "Archive"  -> ArchiveTodoOn(repo, pr.id, clk, wclk, pr.be)
      [] pr.op = "Get"      -> GetTodoOn(repo, pr.id, pr.be)
      [] pr.op = "List"     -> ListTodosOn(repo, fa, pr.be)

\* The outcomes of pr made alone on repo at some time up to now.
Outcomes(repo, pr) ==
    LET ids == IF pr.op = "Create" THEN {"id1", "id2", "id3"} \ DOMAIN repo
               ELSE {""}
        fas == IF pr.op = "List" THEN PortFindAll(repo, pr.be)
               ELSE {[list |-> <<>>, err |-> nil]}
    IN  {SeqCall(repo, pr, c[1], c[2], c[3], c[4]) :
            c \in {d \in ids \X (0..now) \X (0..now) \X fas : d[2] <= d[3]}}

\* A call that ran with no other call in progress has returned what the use
\* case returns as a function of the repository it started from, and left
\* the repository that function gives: the steps of a call, taken alone,
\* add up to the use case.
SequentialCallsAgree ==
    \A p \in Running :
        Running = {p} /\ procs[p].pc = "done" =>
            \E out \in Outcomes(before, procs[p]) :
                /\ out.err = procs[p].err
                /\ out.rid = procs[p].rid
                /\ out.resp = procs[p].resp
                /\ out.calls = procs[p].calls
                /\ out.repo = todos

SameLifecycle(a, b) ==
    /\ a.status = b.status
    /\ a.completedAt = b.completedAt
    /\ a.updatedAt = b.updatedAt

\* C1: for a stored todo, CompleteTodoUseCase succeeds exactly when the status
\* is pending (result completed) and otherwise fails with ErrCannotCompleteTodo
\* (3001); ArchiveTodoUseCase succeeds exactly when the status is pending or
\* completed (result archived) and otherwise fails with ErrCannotArchiveTodo
\* (3002); a failing call leaves status, completedAt and updatedAt unchanged.
C1_TransitionErrors ==
    /\ \A id \in Stored :
          LET t == todos[id]
              c == CompleteTodoRun(todos, id, now)
              a == ArchiveTodoRun(todos, id, now)
          IN  /\ (c.err = NilErr) <=> (t.status = "pending")
              /\ c.err = NilErr => c.repo[id].status = "completed"
              /\ t.status \in {"completed", "archived"} =>
                    /\ c.err = ErrCannotCompleteTodo
                    /\ c.err.errorCode = 3001
                    /\ SameLifecycle(c.repo[id], t)
              /\ (a.err = NilErr) <=> (t.status \in {"pending", "completed"})
              /\ a.err = NilErr => a.repo[id].status = "archived"
              /\ t.status = "archived" =>
                    /\ a.err = ErrCannotArchiveTodo
                    /\ a.err.errorCode = 3002
                    /\ SameLifecycle(a.repo[id], t)
    /\ last.op = "Complete" /\ last.id \in Stored =>
          IF last.err = NilErr THEN todos[last.id].status = "completed"
          ELSE last.err = ErrCannotCompleteTodo
    /\ last.op = "Archive" /\ last.id \in Stored =>
          IF last.err = NilErr THEN todos[last.id].status = "archived"
          ELSE last.err = ErrCannotArchiveTodo
    /\ SequentialCallsAgree

\* A CompleteTodo call has just been rejected on an archived todo.
C1_Witness ==
    /\ last.op = "Complete"
    /\ last.id \in Stored
    /\ last.err = ErrCannotCompleteTodo
    /\ todos[last.id].status = "archived"

LegalEdge(from, to) ==
    \/ from = to
    \/ from = "pending" /\ to \in {"completed", "archived"}
    \/ from = "completed" /\ to = "archived"

\* C2: in every sequential run of the use cases from an empty repository a
\* stored todo starts as pending and its status changes only along
\* pending->completed, pending->archived and completed->archived.
C2_StatusEdges ==
    /\ [][/\ \A id \in Stored :
                id \in DOMAIN todos'
                  /\ LegalEdge(todos[id].status, todos'[id].status)
          /\ \A id \in DOMAIN todos' \ Stored :
                todos'[id].status = "pending"]_vars
    /\ [](Idle => \A id \in Stored :
            /\ LegalEdge(todos[id].status,
                         CompleteTodoRun(todos, id, now).repo[id].status)
            /\ LegalEdge(todos[id].status,
                         ArchiveTodoRun(todos, id, now).repo[id].status)
            /\ \A cmd \in UpdateCommands :
                  cmd.ID = id =>
                     UpdateTodoRun(todos, cmd, now).repo[id].status
                        = todos[id].status)
    /\ [](Idle => \A cmd \in CreateCommands, newID \in TodoIDs \ Stored :
            LET c == CreateTodoRun(todos, cmd, newID, now)
            IN  c.err = NilErr => c.repo[newID].status = "pending")
    /\ []SequentialCallsAgree

\* A todo that went through completed has been archived.
C2_Witness ==
    /\ last.op = "Archive"
    /\ last.err = NilErr
    /\ last.id \in Stored
    /\ todos[last.id].status = "archived"
    /\ todos[last.id].completedAt # <<>>

\* C3: archived is terminal at the entity level: once the status is archived
\* no entity operation changes it to anything else.
C3_ArchivedTerminal ==
    [][ent.status = "archived" => ent'.status = "archived"]_vars

\* C4: in every state reachable from NewTodo through entity operations,
\* completedAt is non-null if and only if status is completed.
C4_CompletedAtIffCompleted ==
    (ent.completedAt # <<>>) <=> (ent.status = "completed")

\* C4 (amended): while the status is not archived, completedAt is non-null
\* if and only if status is completed; an archived todo may carry either.
C4_CompletedAtByStatus ==
    /\ ent.status = "completed" => ent.completedAt # <<>>
    /\ ent.status = "pending" => ent.completedAt = <<>>

\* A completed todo has been archived and still carries its completedAt.
C4_Witness ==
    /\ last.op = "ArchiveTodo"
    /\ last.err = nil
    /\ ent.status = "archived"
    /\ ent.completedAt # <<>>

NonBlank(s) == \E i \in DOMAIN s : ~IsSpace(s[i][1])

ValidForCreate(cmd) ==
    /\ NonBlank(cmd.Title)
    /\ StrLen(cmd.Title) <= 100
    /\ StrLen(cmd.Description) <= 1000
    /\ cmd.Priority \in {"low", "medium", "high"}

\* A title of at most 100 characters that is not blank, a description of at
\* most 1000 characters and a priority among low, medium and high.
WithinCharacterLimits(cmd) ==
    /\ NonBlank(cmd.Title)
    /\ CharLen(cmd.Title) <= 100
    /\ CharLen(cmd.Description) <= 1000
    /\ cmd.Priority \in {"low", "medium", "high"}

\* C5: for every command with a non-blank title of at most 100 characters, a
\* description of at most 1000 characters and a priority in {low, medium,
\* high}, CreateTodoUseCase succeeds and returns a non-empty identifier, and
\* GetTodoUseCase on it returns the same id, title, description and priority,
\* status pending and a null completedAt.
C5_CreateThenGet ==
    /\ \A cmd \in CreateCommands, newID \in TodoIDs \ Stored :
          WithinCharacterLimits(cmd) =>
             LET c == CreateTodoRun(todos, cmd, newID, now)
                 g == GetTodoRun(c.repo, c.rid)
             IN  /\ c.err = NilErr
                 /\ c.rid # ""
                 /\ g.err = NilErr
                 /\ Len(g.resp) = 1
                 /\ g.resp[1].ID = c.rid
                 /\ g.resp[1].Title = cmd.Title
                 /\ g.resp[1].Description = cmd.Description
                 /\ g.resp[1].Priority = cmd.Priority
                 /\ g.resp[1].Status = "pending"
                 /\ g.resp[1].CompletedAt = <<>>
    /\ last.op = "Create" /\ last.err = NilErr =>
          LET g == GetTodoRun(todos, last.rid)
          IN  /\ last.rid # ""
              /\ g.err = NilErr
              /\ g.resp[1].ID = last.rid
              /\ g.resp[1].Status = "pending"
              /\ g.resp[1].CompletedAt = <<>>

\* C6: for every stored pending todo, CompleteTodoUseCase followed by
\* GetTodoUseCase returns status completed and a completedAt equal to the
\* time of the completion; a following ArchiveTodoUseCase then GetTodoUseCase
\* returns status archived.
C6_CompleteThenGet ==
    /\ \A id \in Stored, d2 \in 0..1 :
          todos[id].status = "pending" =>
             LET c  == CompleteTodoRun(todos, id, now)
                 g  == GetTodoRun(c.repo, id)
                 a  == ArchiveTodoRun(c.repo, id, now + d2)
                 g2 == GetTodoRun(a.repo, id)
             IN  /\ c.err = NilErr
                 /\ g.err = NilErr
                 /\ g.resp[1].Status = "completed"
                 /\ g.resp[1].CompletedAt = <<now>>
                 /\ a.err = NilErr
                 /\ g2.err = NilErr
                 /\ g2.resp[1].Status = "archived"
    /\ last.op = "Complete" /\ last.err = NilErr =>
          LET g == GetTodoRun(todos, last.id)
          IN  /\ g.err = NilErr
              /\ g.resp[1].Status = "completed"
              /\ g.resp[1].CompletedAt = <<todos[last.id].updatedAt>>
              /\ g.resp[1].CompletedAt[1] <= now
              /\ last.id \in DOMAIN before
              /\ before[last.id].updatedAt <= g.resp[1].CompletedAt[1]
    /\ SequentialCallsAgree

\* A todo has just been completed, later than it was created.
C6_Witness ==
    /\ last.op = "Complete"
    /\ last.err = NilErr
    /\ last.id \in Stored
    /\ todos[last.id].status = "completed"
    /\ todos[last.id].completedAt = <<now>>
    /\ todos[last.id].createdAt < now

Called(out, method) == \E i \in DOMAIN out.calls : out.calls[i] = method

NotFoundNoMutation(out) ==
    /\ out.err = ErrTodoNotFound
    /\ out.err.errorCode = 2001
    /\ out.err.httpStatus = 404
    /\ ~Called(out, "Save")
    /\ out.repo = todos

FieldsValidForUpdate(cmd) ==
    /\ cmd.Title # <<>> => NonBlank(cmd.Title) /\ StrLen(cmd.Title) <= 100
    /\ StrLen(cmd.Description) <= 1000
    /\ cmd.Priority # "" => cmd.Priority \in {"low", "medium", "high"}

IsValidationError(e) == e.errorCode \in 1000..1999

AbsentIdsFail ==
    \A id \in TodoIDs \ Stored :
        /\ NotFoundNoMutation(GetTodoRun(todos, id))
        /\ NotFoundNoMutation(CompleteTodoRun(todos, id, now))
        /\ NotFoundNoMutation(ArchiveTodoRun(todos, id, now))

\* C7: for every id that is not stored and for every input, GetTodoUseCase,
\* UpdateTodoUseCase, CompleteTodoUseCase and ArchiveTodoUseCase fail with
\* ErrTodoNotFound (2001, HTTP 404), never call Save and leave the repository
\* unchanged.
C7_NotFoundEveryInput ==
    /\ AbsentIdsFail
    /\ Idle => \A cmd \in UpdateCommands :
          cmd.ID \notin Stored =>
             NotFoundNoMutation(UpdateTodoRun(todos, cmd, now))

\* C7 (amended): for every id that is not stored, GetTodoUseCase,
\* CompleteTodoUseCase and ArchiveTodoUseCase fail with ErrTodoNotFound, and
\* so does UpdateTodoUseCase for every command whose non-empty fields all
\* pass validation; a command with a field that does not fails with a
\* validation error instead.  None of these calls invokes Save or changes
\* the repository.
C7_NotFoundValidInput ==
    /\ AbsentIdsFail
    /\ Idle => \A cmd \in UpdateCommands :
          cmd.ID \notin Stored =>
             LET u == UpdateTodoRun(todos, cmd, now)
             IN  /\ IF FieldsValidForUpdate(cmd)
                    THEN NotFoundNoMutation(u)
                    ELSE IsValidationError(u.err)
                 /\ ~Called(u, "Save")
                 /\ u.repo = todos
    /\ last.op \in {"Get", "Update", "Complete", "Archive"}
          /\ last.id \notin Stored =>
             /\ last.err = ErrTodoNotFound \/ IsValidationError(last.err)
             /\ ~Called(last, "Save")
             /\ todos = before
    /\ SequentialCallsAgree

\* An archive of an id that is not stored has just failed while another todo
\* is stored.
C7_Witness ==
    /\ last.op = "Archive"
    /\ last.id \notin Stored
    /\ last.err = ErrTodoNotFound
    /\ Stored # {}

\* C8: for an existing todo in any status and a command whose non-empty
\* fields are all valid, UpdateTodoUseCase returns no error and each of title,
\* description and priority equals the command's value when that field is
\* non-empty and its previous value when it is empty; a command with all three
\* fields empty changes no field of the stored todo.
AllEmpty(cmd) ==
    cmd.Title = <<>> /\ cmd.Description = <<>> /\ cmd.Priority = ""

\* The update cmd, made at time now on backend be, succeeds, and title,
\* description and priority are the command's where it has them and the
\* previous ones where it has not.
FieldsFollowCommand(cmd, be) ==
    LET u  == UpdateTodoOn(todos, cmd, now, now, be)
        t  == todos[cmd.ID]
        t2 == u.repo[cmd.ID]
    IN  /\ u.err = NilErr
        /\ DOMAIN u.repo = Stored
        /\ t2.title = IF cmd.Title # <<>> THEN cmd.Title ELSE t.title
        /\ t2.description = IF cmd.Description # <<>>
                            THEN cmd.Description ELSE t.description
        /\ t2.priority = IF cmd.Priority # "" THEN cmd.Priority ELSE t.priority

UpdateBackends == {InMemory, Relational}

C8_PartialUpdate ==
    Idle => \A be \in UpdateBackends, cmd \in UpdateCommands :
        cmd.ID \in Stored /\ FieldsValidForUpdate(cmd) =>
           /\ FieldsFollowCommand(cmd, be)
           /\ AllEmpty(cmd) =>
                 UpdateTodoOn(todos, cmd, now, now, be).repo[cmd.ID]
                    = todos[cmd.ID]

\* C8 (amended): for an existing todo in any status and a command whose
\* non-empty fields all pass validation, UpdateTodoUseCase returns no error
\* and each of title, description and priority equals the command's value
\* when that field is non-empty and its previous value when it is empty; a
\* command with all three fields empty changes no field of a todo stored in
\* the in-memory repository, and of a todo stored in the relational
\* repository it changes updatedAt only, to the time of the write.
C8_PartialUpdateByBackend ==
    /\ Idle => \A be \in UpdateBackends, cmd \in UpdateCommands :
          cmd.ID \in Stored /\ FieldsValidForUpdate(cmd) =>
             /\ FieldsFollowCommand(cmd, be)
             /\ AllEmpty(cmd) =>
                   UpdateTodoOn(todos, cmd, now, now, be).repo[cmd.ID]
                      = IF be.aliased THEN todos[cmd.ID]
                        ELSE [todos[cmd.ID] EXCEPT !.updatedAt = now]
    /\ last.op = "Update" /\ last.err = NilErr =>
          /\ last.id \in DOMAIN before
          /\ todos[last.id].status = before[last.id].status
          /\ todos[last.id].completedAt = before[last.id].completedAt
          /\ todos[last.id].createdAt = before[last.id].createdAt
    /\ SequentialCallsAgree

\* An archived todo has just been updated, after its creation, and now has
\* the 100-character title and priority high.
C8_Witness ==
    /\ last.op = "Update"
    /\ last.err = NilErr
    /\ last.id \in Stored
    /\ todos[last.id].status = "archived"
    /\ todos[last.id].title = Rep(97, 100)
    /\ todos[last.id].priority = "high"
    /\ todos[last.id].updatedAt = now
    /\ todos[last.id].createdAt < now

ExpectedUpdateError(cmd) ==
    IF cmd.Title # <<>> /\ ~NonBlank(cmd.Title) THEN ErrEmptyTitle
    ELSE IF cmd.Title # <<>> /\ StrLen(cmd.Title) > 100 THEN ErrTitleTooLong
    ELSE IF StrLen(cmd.Description) > 1000 THEN ErrInvalidDescription
    ELSE IF cmd.Priority # "" /\ cmd.Priority \notin {"low", "medium", "high"}
         THEN ErrInvalidPriority
    ELSE NilErr

\* C9: UpdateTodoUseCase returns a validation error (code 1000-1999) exactly
\* when some non-empty field of the command violates its rule; the error is
\* that of the first violating field in the order title, description,
\* priority; then neither FindByID nor Save is invoked and the repository is
\* unmodified, whether or not the id exists.  Empty fields are never a
\* validation error.
C9_UpdateValidation ==
    /\ Idle => \A cmd \in UpdateCommands :
          LET u == UpdateTodoRun(todos, cmd, now)
              e == ExpectedUpdateError(cmd)
          IN  /\ IsValidationError(u.err) <=> e # NilErr
              /\ e # NilErr => u.err = e /\ u.calls = <<>> /\ u.repo = todos
              /\ e = NilErr => Called(u, "FindByID")
    /\ last.op = "Update" /\ IsValidationError(last.err) =>
          last.calls = <<>> /\ todos = before
    /\ SequentialCallsAgree

\* An update of a stored todo has just been rejected for its title length
\* without any repository call.
C9_Witness ==
    /\ last.op = "Update"
    /\ last.id \in Stored
    /\ last.err = ErrTitleTooLong
    /\ last.calls = <<>>

\* C10: a todo created through CreateTodoUseCase with a valid title and
\* description and an empty-string priority is created successfully and
\* stored with priority medium.
C10_DefaultPriority ==
    \A cmd \in CreateCommands, newID \in TodoIDs \ Stored :
        /\ NonBlank(cmd.Title)
        /\ StrLen(cmd.Title) <= 100
        /\ StrLen(cmd.Description) <= 1000
        /\ cmd.Priority = ""
        => LET c == CreateTodoRun(todos, cmd, newID, now)
           IN  /\ c.err = NilErr
               /\ c.rid \in DOMAIN c.repo
               /\ c.repo[c.rid].priority = "medium"

Catalogue ==
    {ErrInvalidTitle, ErrInvalidDescription, ErrInvalidPriority, ErrEmptyTitle,
     ErrTitleTooLong, ErrTodoNotFound, ErrCannotCompleteTodo,
     ErrCannotArchiveTodo, ErrRepositoryNotInitialized, ErrFailedToSaveTodo,
     ErrFailedToSaveCompletedTodo, ErrFailedToSaveArchivedTodo,
     ErrFailedToRetrieveTodos}

\* Exactly one of a success value and a domain error.
EitherOr(out, hasValue) ==
    /\ out.err = NilErr \/ out.err \in Catalogue
    /\ hasValue <=> out.err = NilErr

\* C11: for every input and every repository behaviour (Save, FindByID and
\* FindAll failing included) a use case returns either a success value or a
\* domain error, never both and never neither: CreateTodoUseCase returns a
\* non-empty id exactly when its error is nil, GetTodoUseCase and
\* ListTodosUseCase return a non-nil response exactly when their error is nil,
\* and the error of every operation is nil or one of the catalogue.
C11_ValueXorError ==
    /\ Idle => \A be \in PortBackends :
          /\ \A cmd \in PortCreateCommands, newID \in TodoIDs \ Stored :
                LET c == CreateTodoOn(todos, cmd, newID, now, now, be)
                IN  EitherOr(c, c.rid # "") /\ c.resp = <<>>
          /\ \A cmd \in PortUpdateCommands :
                LET u == UpdateTodoOn(todos, cmd, now, now, be)
                IN  (u.err = NilErr \/ u.err \in Catalogue)
                    /\ u.rid = "" /\ u.resp = <<>>
          /\ \A id \in TodoIDs :
                LET c == CompleteTodoOn(todos, id, now, now, be)
                    a == ArchiveTodoOn(todos, id, now, now, be)
                    g == GetTodoOn(todos, id, be)
                IN  /\ c.err = NilErr \/ c.err \in Catalogue
                    /\ a.err = NilErr \/ a.err \in Catalogue
                    /\ EitherOr(g, g.resp # <<>>)
    /\ Idle => \A be \in PortBackends \cup {NilRepository} :
          \A fa \in PortFindAll(todos, be) :
              LET l == ListTodosOn(todos, fa, be)
              IN  EitherOr(l, l.resp # <<>>)
    /\ last.op = "Create" => EitherOr(last, last.rid # "")
    /\ last.op \in {"Get", "List"} => EitherOr(last, last.resp # <<>>)
    /\ SequentialCallsAgree

\* A create with a valid command has just failed in Save: it returned the
\* save error and an empty id, and nothing was stored.
C11_Witness ==
    /\ last.op = "Create"
    /\ last.calls = <<"Save">>
    /\ last.err = ErrFailedToSaveTodo
    /\ last.rid = ""
    /\ Stored = {}

IsRepositoryError(e) == e.errorCode \in 4000..4999 /\ e.httpStatus = 500

\* A repository call made by the use case returned the backend's error: a
\* failed FindByID or FindAll ends the call, and so does a failed Save.
PersistenceFailure(out, be) ==
    \/ Called(out, "Save") /\ be.failSave
    \/ Called(out, "FindByID") /\ be.failFind
    \/ Called(out, "FindAll") /\ be.failFindAll

\* C12: whenever a repository call made by a use case fails for a persistence
\* reason (Save fails, FindAll fails, or FindByID fails for a reason other
\* than the id being absent), the use case returns a repository-category
\* domain error (code 4000-4999, HTTP status 500).
C12_PersistenceErrors ==
    \A be \in PortBackends :
        /\ \A cmd \in PortCreateCommands, newID \in TodoIDs \ Stored :
              LET c == CreateTodoOn(todos, cmd, newID, now, now, be)
              IN  PersistenceFailure(c, be) => IsRepositoryError(c.err)
        /\ \A cmd \in PortUpdateCommands :
              LET u == UpdateTodoOn(todos, cmd, now, now, be)
              IN  PersistenceFailure(u, be) => IsRepositoryError(u.err)
        /\ \A id \in TodoIDs :
              LET c == CompleteTodoOn(todos, id, now, now, be)
                  a == ArchiveTodoOn(todos, id, now, now, be)
                  g == GetTodoOn(todos, id, be)
              IN  /\ PersistenceFailure(c, be) => IsRepositoryError(c.err)
                  /\ PersistenceFailure(a, be) => IsRepositoryError(a.err)
                  /\ PersistenceFailure(g, be) => IsRepositoryError(g.err)
        /\ \A fa \in PortFindAll(todos, be) :
              LET l == ListTodosOn(todos, fa, be)
              IN  PersistenceFailure(l, be) => IsRepositoryError(l.err)

Occurrences(resp, id) ==
    Cardinality({i \in DOMAIN resp.Todos : resp.Todos[i].ID = id})

ListsTheStore(resp) ==
    /\ resp.Count = Cardinality(Stored)
    /\ Len(resp.Todos) = resp.Count
    /\ \A id \in Stored : Occurrences(resp, id) = 1
    /\ Stored = {} => resp.Todos = <<>> /\ resp.Count = 0

\* C13: in every state reachable by use-case operations on an initialised
\* in-memory repository, ListTodosUseCase returns no error, its Count equals
\* the number of stored todos and the length of its Todos collection, and
\* each stored id appears in Todos exactly once; on an empty repository it
\* returns an empty collection with Count 0.
C13_ListCountsStore ==
    /\ \A list \in FindAll(todos) :
          LET l == ListTodosRun(todos, list)
          IN  /\ l.err = NilErr
              /\ Len(l.resp) = 1
              /\ ListsTheStore(l.resp[1])
              /\ l.repo = todos
    /\ last.op = "List" =>
          /\ last.err = NilErr
          /\ Len(last.resp) = 1
          /\ ListsTheStore(last.resp[1])
    /\ SequentialCallsAgree

\* Two todos are stored and have just been listed, the second identifier
\* first.
C13_Witness ==
    /\ last.op = "List"
    /\ Stored = {"id1", "id2"}
    /\ last.resp[1].Count = 2
    /\ last.resp[1].Todos[1].ID = "id2"

\* list holds exactly the todos of repo, each once.
ExactlyStored(list, repo) ==
    /\ Len(list) = Cardinality(DOMAIN repo)
    /\ \A k \in DOMAIN repo :
          Cardinality({i \in DOMAIN list : list[i] = repo[k]}) = 1

\* C14: after any sequence of Save, FindByID, FindAll and Delete calls the
\* in-memory repository behaves like a map from id to todo: Save(t) succeeds
\* and maps t's id to t without touching other ids; FindByID(id) succeeds and
\* returns the stored todo exactly when id is present, otherwise it returns a
\* nil todo and an error; FindAll returns exactly the stored todos;
\* Delete(id) removes exactly that entry when present, and when absent
\* returns an error and leaves the content unchanged.
C14_RepositoryIsMap ==
    /\ \A t \in RepoTodos :
          LET r == Save(todos, t)
          IN  /\ r.err = nil
              /\ DOMAIN r.repo = Stored \cup {t.id}
              /\ r.repo[t.id] = t
              /\ \A k \in Stored \ {t.id} : r.repo[k] = todos[k]
    /\ \A id \in RepoIDs :
          LET f == FindByID(todos, id)
              x == Delete(todos, id)
          IN  /\ (f.err = nil) <=> (id \in Stored)
              /\ id \in Stored => f.todo = <<todos[id]>>
              /\ id \notin Stored => f.todo = <<>> /\ f.err # nil
              /\ (x.err = nil) <=> (id \in Stored)
              /\ id \in Stored =>
                    /\ DOMAIN x.repo = Stored \ {id}
                    /\ \A k \in Stored \ {id} : x.repo[k] = todos[k]
              /\ id \notin Stored => x.err # nil /\ x.repo = todos
    /\ \A list \in FindAll(todos) : ExactlyStored(list, todos)
    /\ last.op = "Save" => last.err = nil /\ last.id \in Stored
    /\ last.op = "Delete" => last.id \notin Stored
    /\ last.op = "FindByID" =>
          IF last.id \in Stored
          THEN last.err = nil /\ last.resp = <<todos[last.id]>>
          ELSE last.err # nil /\ last.resp = <<>>
    /\ last.op = "FindAll" => ExactlyStored(last.resp[1], todos)

\* A Delete of an absent id has just failed while two other todos stay
\* repository call.
C14_Witness ==
    /\ last.op = "Delete"
    /\ last.err # nil
    /\ last.id = "id3"
    /\ Stored = {"id1", "id2"}
    /\ todos["id1"].title = Rep(98, 1)
    /\ todos["id1"].status = TodoStatusArchived

AllDone == Running # {} /\ \A p \in Running : procs[p].pc = "done"

ValidCreators == {p \in Running : procs[p].op = "Create"
                                  /\ ValidForCreate(procs[p].cmd)}

\* C15: for N valid CreateTodoUseCase calls running concurrently against one
\* in-memory repository, under every interleaving all N calls succeed with
\* distinct identifiers and afterwards the repository holds exactly N
\* entries, so ListTodosUseCase reports Count N; no save is lost: a todo whose
\* creation has returned stays stored.
C15_ConcurrentCreates ==
    /\ \A p \in ValidCreators :
          procs[p].pc = "done" =>
             /\ procs[p].err = NilErr
             /\ procs[p].rid \in Stored
             /\ \A q \in ValidCreators \ {p} :
                   procs[q].pc = "done" => procs[q].rid # procs[p].rid
    /\ AllDone =>
          /\ Cardinality(Stored) = Cardinality(ValidCreators)
          /\ \A list \in FindAll(todos) :
                LET l == ListTodosRun(todos, list)
                IN  /\ l.err = NilErr
                    /\ l.resp[1].Count = Cardinality(ValidCreators)
                    /\ Len(l.resp[1].Todos) = Cardinality(ValidCreators)

\* Three concurrent valid creations have all returned and three todos are
\* repository call.
C15_Witness ==
    /\ AllDone
    /\ Cardinality(ValidCreators) = 3
    /\ Cardinality(Stored) = 3

SameResult(pr, out) == pr.err = out.err /\ pr.resp = out.resp

\* The results and the stored todos are those of p's call followed by q's,
\* each made alone at some time up to now.
Serial(p, q) ==
    \E o1 \in Outcomes(before, procs[p]) :
        /\ SameResult(procs[p], o1)
        /\ \E o2 \in Outcomes(o1.repo, procs[q]) :
              /\ SameResult(procs[q], o2)
              /\ todos = o2.repo

BothComplete ==
    /\ \A p \in Workers : procs[p].op = "Complete"
    /\ "id1" \in DOMAIN before
    /\ before["id1"].status = TodoStatusPending

\* C16: for GetTodo, UpdateTodo, CompleteTodo and ArchiveTodo calls running
\* concurrently against one in-memory repository, the returned results and
\* the final stored todos are those of some sequential execution of the same
\* calls; in particular, of two concurrent CompleteTodoUseCase calls on the
\* same pending todo exactly one succeeds and the other fails with
\* ErrCannotCompleteTodo.
C16_Serializable ==
    /\ AllDone /\ Running = Workers
    /\ \A p \in Workers : procs[p].op \in {"Get", "Update", "Complete", "Archive"}
    =>
       /\ Serial("w1", "w2") \/ Serial("w2", "w1")
       /\ BothComplete =>
             \E p \in Workers :
                 /\ procs[p].err = NilErr
                 /\ \A q \in Workers \ {p} : procs[q].err = ErrCannotCompleteTodo

ExpectedCreateError(cmd) ==
    IF ~NonBlank(cmd.Title) THEN ErrEmptyTitle
    ELSE IF StrLen(cmd.Title) > 100 THEN ErrTitleTooLong
    ELSE IF StrLen(cmd.Description) > 1000 THEN ErrInvalidDescription
    ELSE IF cmd.Priority \notin {"low", "medium", "high"} THEN ErrInvalidPriority
    ELSE NilErr

\* C17: for every (title, description, priority), ValidateCreateTodoCommand
\* returns the first failure in the fixed order: ErrEmptyTitle if the title is
\* blank after trimming white space; otherwise ErrTitleTooLong if the title is
\* longer than 100; otherwise ErrInvalidDescription if the description is
\* longer than 1000; otherwise ErrInvalidPriority if the priority is not
\* exactly one of low, medium, high; otherwise no error.  CreateTodoUseCase
\* returns that error without calling the repository.
C17_CreateValidationOrder ==
    /\ ValidateCreateTodoCommand(ent.Title, ent.Description, ent.Priority)
          = ExpectedCreateError(ent)
    /\ \A newID \in TodoIDs :
          LET c == CreateTodoRun(todos, ent, newID, now)
          IN  /\ c.err = ExpectedCreateError(ent)
              /\ c.err # NilErr => c.calls = <<>> /\ c.repo = todos
    /\ last.op = "ValidateCreateTodoCommand" =>
          last.err = ExpectedCreateError(ent)

\* A command whose title is padded but valid has just been rejected for its
\* description, although its priority is invalid too.
C17_Witness ==
    /\ last.op = "ValidateCreateTodoCommand"
    /\ last.err = ErrInvalidDescription
    /\ ent.Title = << <<32, 1>>, <<98, 1>> >>
    /\ ent.Priority = "urgent"

\* Two domain errors that differ at most in their internalReason.
SameButInternalReason(e1, e2) ==
    /\ e1.errorCode = e2.errorCode
    /\ e1.httpStatus = e2.httpStatus
    /\ e1.errorMessage = e2.errorMessage
    /\ e1.details = e2.details

\* C18: the error body the HTTP adapter writes for a domain error does not
\* depend on the error's internalReason: two domain errors that differ only in
\* internalReason produce identical default error responses, and the body
\* written carries no internal-reason.
C18_InternalReasonHidden ==
    /\ \A e2 \in DomainErrors :
          IsDomainError(ent) /\ SameButInternalReason(ent, e2) =>
             writeDomainError(ent) = writeDomainError(e2)
    /\ last.op = "writeDomainError" => "internal-reason" \notin DOMAIN last.body

\* C19: MarkAsPending applied to a todo whose status is completed succeeds,
\* sets the status to pending and clears completedAt; and MarkAsPending never
\* moves an archived todo to pending.
C19_RevertCompleted ==
    LET r == MarkAsPending(ent, now)
    IN  /\ IsCompleted(ent) =>
              /\ r.err = nil
              /\ r.todo.status = TodoStatusPending
              /\ r.todo.completedAt = <<>>
        /\ IsArchived(ent) => r.todo.status = TodoStatusArchived

\* A mutator call either fails and changes nothing, or succeeds with
\* exactly the expected todo.
AtomicOutcome(r, t, fails, expected) ==
    /\ (r.err # nil) <=> fails
    /\ fails => r.todo = t
    /\ ~fails => r.todo = expected

\* C20: UpdateTitle(t) fails exactly when t is empty or longer than 200
\* characters, UpdateDescription(d) fails exactly when d is longer than 1000
\* characters, UpdatePriority(p) fails exactly when p is not one of low,
\* medium, high; a failing call leaves every field of the todo (updatedAt
\* included) unchanged, and a succeeding call sets exactly the targeted field
\* to the new value and refreshes updatedAt.
C20_AtomicMutators ==
    /\ \A t \in EntityTitles :
          AtomicOutcome(UpdateTitle(ent, t, now), ent,
                        t = <<>> \/ CharLen(t) > 200,
                        [ent EXCEPT !.title = t, !.updatedAt = now])
    /\ \A de \in EntityDescriptions :
          AtomicOutcome(UpdateDescription(ent, de, now), ent,
                        CharLen(de) > 1000,
                        [ent EXCEPT !.description = de, !.updatedAt = now])
    /\ \A p \in EntityPriorities :
          AtomicOutcome(UpdatePriority(ent, p, now), ent,
                        p \notin {"low", "medium", "high"},
                        [ent EXCEPT !.priority = p, !.updatedAt = now])
    /\ last.op = "UpdateTitle" /\ last.err = nil =>
          ent.title # <<>> /\ CharLen(ent.title) <= 200 /\ ent.updatedAt = now
    /\ last.op = "UpdateDescription" /\ last.err = nil =>
          CharLen(ent.description) <= 1000 /\ ent.updatedAt = now
    /\ last.op = "UpdatePriority" /\ last.err = nil =>
          ent.priority \in {"low", "medium", "high"} /\ ent.updatedAt = now

\* What the entity's methods return when called at clk (the todo after the
\* call and the error): the three transitions, and the three field mutators
\* with every argument.
Transitions(t, clk) ==
    {MarkAsCompleted(t, clk), MarkAsPending(t, clk), ArchiveTodo(t, clk)}

FieldUpdates(t, clk) ==
    {UpdateTitle(t, x, clk) : x \in EntityTitles}
      \cup {UpdateDescription(t, x, clk) : x \in EntityDescriptions}
      \cup {UpdatePriority(t, x, clk) : x \in EntityPriorities}

\* C21: after any sequence of successful or failed entity operations the
\* todo's id and createdAt are those set by NewTodo, every operation leaves
\* them as they are, and UpdateTitle, UpdateDescription and UpdatePriority
\* leave status and completedAt as they are, whatever the current status.
C21_IdentityAndFrame ==
    /\ ent.id = "id1"
    /\ ent.createdAt = 0
    /\ \A r \in Transitions(ent, now) \cup FieldUpdates(ent, now) :
          r.todo.id = ent.id /\ r.todo.createdAt = ent.createdAt
    /\ \A r \in FieldUpdates(ent, now) :
          r.todo.status = ent.status /\ r.todo.completedAt = ent.completedAt

\* A description has just been accepted on a completed todo, later than the
\* todo was created: the todo is still completed and keeps its completedAt.
C21_Witness ==
    /\ last.op = "UpdateDescription"
    /\ last.err = nil
    /\ ent.description = Rep(100, 1000)
    /\ ent.status = TodoStatusCompleted
    /\ ent.completedAt = <<0>>
    /\ ent.updatedAt = 1
    /\ ent.createdAt = 0

\* C22: the clock never runs backwards; every successful mutation sets
\* updatedAt to the current time; MarkAsCompleted sets completedAt to the
\* same instant as updatedAt; and in every reachable state
\* createdAt <= updatedAt and, when completedAt is non-null,
\* createdAt <= completedAt <= updatedAt.
C22_Timestamps ==
    /\ ent.createdAt <= ent.updatedAt
    /\ ent.updatedAt <= now
    /\ ent.completedAt # <<>> =>
          ent.createdAt <= ent.completedAt[1]
            /\ ent.completedAt[1] <= ent.updatedAt
    /\ \A r \in Transitions(ent, now) \cup FieldUpdates(ent, now) :
          r.err = nil => r.todo.updatedAt = now
    /\ LET r == MarkAsCompleted(ent, now)
       IN  r.err = nil => r.todo.completedAt = <<r.todo.updatedAt>>
    /\ last.op \notin {"NewTodo", "Tick"} /\ last.err = nil =>
          ent.updatedAt = now
    /\ last.op = "MarkAsCompleted" /\ last.err = nil =>
          ent.completedAt = <<ent.updatedAt>>

\* A todo created at 0 was completed at 0 and has just been archived at 1:
\* createdAt = completedAt < updatedAt.
C22_Witness ==
    /\ last.op = "ArchiveTodo"
    /\ last.err = nil
    /\ ent.createdAt = 0
    /\ ent.completedAt = <<0>>
    /\ ent.updatedAt = 1

\* The getters of todo report exactly the values of the record r.
ReportsFields(todo, r) == fromModel(todo) = r

\* C23: for every supplied id, title, description, status, priority,
\* createdAt, updatedAt and completedAt, the todo returned by NewTodoFromData
\* and the todo returned by NewTodoWithAllFields report exactly the supplied
\* values through their getters, and rebuilding a todo from its own getter
\* values yields an equal todo.
C23_ReconstructionPreservesFields ==
    /\ ReportsFields(toModel(ent), ent)
    /\ ReportsFields(toModelWithAllFields(ent), ent)
    /\ toModel(fromModel(toModel(ent))) = toModel(ent)
    /\ toModelWithAllFields(fromModel(toModelWithAllFields(ent)))
          = toModelWithAllFields(ent)
    /\ last.todo # <<>> => ReportsFields(last.todo[1], ent)

\* The callers that hold the lock their method took: from the map access
\* to the deferred release.
Inside(ops) ==
    {p \in Callers : procs[p].op \in ops
                       /\ procs[p].pc \in {"map", "delete", "Unlock", "RUnlock"}}

\* C24: at most one Save or Delete is inside its map access; none is inside
\* while a FindByID or FindAll is; and the mutex records exactly the callers
\* that are inside.
C24_WritersExclusive ==
    /\ Cardinality(Inside(Writes)) <= 1
    /\ Inside(Writes) # {} => Inside(Reads) = {}
    /\ mu.readers = Inside(Reads)
    /\ \A p \in Callers : mu.writer = <<p>> <=> p \in Inside(Writes)

\* Two readers, a FindByID and a FindAll, are inside their map access at the
\* same time while a Delete waits for the lock.
C24_Witness ==
    /\ \E p, q \in Inside(Reads) :
          /\ procs[p].op = "FindByID" /\ procs[p].pc = "map"
          /\ procs[q].op = "FindAll" /\ procs[q].pc = "map"
    /\ \E w \in Callers : procs[w].op = "Delete" /\ procs[w].pc = "Lock"

AllReturned == \A p \in Callers : procs[p].pc = "done"

\* A caller that has returned holds neither lock.
Released(p) == procs[p].pc = "done" => mu.writer # <<p>> /\ p \notin mu.readers

\* C25: with a fair scheduler every started Save, FindByID, FindAll and
\* Delete returns; whenever a call has returned, on the not-found paths
\* too, it holds no lock; and once all have returned the mutex is free.
C25_CallsReturn ==
    /\ <>[](AllReturned /\ mu = Unlocked)
    /\ [](\A p \in Callers : Released(p))

\* All three calls have returned and the mutex is free: a FindByID and a
\* Delete that did not find their todo, and a Save.
C25_Witness ==
    /\ AllReturned
    /\ mu = Unlocked
    /\ \E p, q, w \in Callers :
          /\ procs[p].op = "FindByID" /\ procs[p].err # nil
          /\ procs[q].op = "Delete" /\ procs[q].err # nil
          /\ procs[w].op = "Save"

\* Worker p runs the use case op on the stored todo "id1".
Runs(p, op) == p \in Running /\ procs[p].op = op /\ procs[p].id = "id1"

Succeeded(p) == procs[p].pc = "done" /\ procs[p].err = NilErr

\* C26: when CompleteTodoUseCase and ArchiveTodoUseCase run concurrently on
\* the same stored todo, in every state in which ArchiveTodoUseCase has
\* returned success the todo's status is archived.
C26_ArchiveSticks ==
    \A p, q \in Workers :
        Runs(p, "Archive") /\ Runs(q, "Complete") /\ Succeeded(p) =>
            todos["id1"].status = TodoStatusArchived

\* C27: when GetTodoUseCase runs concurrently with CompleteTodoUseCase on
\* the same pending todo, the response it returns is either (status pending,
\* completedAt null) or (status completed, completedAt non-null).
C27_GetSnapshot ==
    \A p, q \in Workers :
        /\ Runs(p, "Get") /\ Runs(q, "Complete") /\ Succeeded(p)
        /\ "id1" \in DOMAIN before
        /\ before["id1"].status = TodoStatusPending
        => LET resp == procs[p].resp[1]
           IN  \/ resp.Status = TodoStatusPending /\ resp.CompletedAt = <<>>
               \/ resp.Status = TodoStatusCompleted /\ resp.CompletedAt # <<>>

\* C28: in every state reached from an empty repository by sequential
\* use-case calls, every stored todo has a title that is not blank and at most
\* 100 characters long, a description of at most 1000 characters and a
\* priority among low, medium and high; no stored title is between 101 and
\* 200 characters long.
C28_StoredFieldsValid ==
    \A id \in Stored :
        /\ TrimSpace(todos[id].title) # <<>>
        /\ CharLen(todos[id].title) <= 100
        /\ ~(CharLen(todos[id].title) \in 101..200)
        /\ CharLen(todos[id].description) <= 1000
        /\ todos[id].priority \in {"low", "medium", "high"}

\* An update has just been accepted that left a title of exactly 100
\* characters and a description of exactly 1000 characters in the store.
C28_Witness ==
    /\ last.op = "Update"
    /\ last.err = NilErr
    /\ "id1" \in Stored
    /\ todos["id1"].title = Rep(97, 100)
    /\ todos["id1"].description = Rep(100, 1000)
    /\ todos["id1"].updatedAt = 1

\* The stored todos other than those in ids are the same after the step.
OthersUnchanged(ids) ==
    \A k \in DOMAIN todos \ ids : k \in DOMAIN todos' /\ todos'[k] = todos[k]

\* The todos the call started from, other than those in ids, are stored as
\* they were.
Untouched(ids) ==
    \A k \in DOMAIN before \ ids : k \in Stored /\ todos[k] = before[k]

\* The call that has just returned touched its target at most.
ReturnedCallFrame ==
    /\ last.op \in {"Update", "Complete", "Archive"} =>
          Stored = DOMAIN before /\ Untouched({last.id})
    /\ last.op = "Create" /\ last.err = NilErr =>
          /\ last.rid \notin DOMAIN before
          /\ Stored = DOMAIN before \cup {last.rid}
          /\ todos[last.rid].id = last.rid
          /\ Untouched({})
    /\ last.op = "Create" /\ last.err # NilErr => todos = before
    /\ last.op \in {"Get", "List"} => todos = before

\* A step of a call in progress touches the call's target at most.
StepFrame ==
    \A p \in Running :
        /\ procs[p].op \in {"Update", "Complete", "Archive"} =>
              DOMAIN todos' = DOMAIN todos /\ OthersUnchanged({procs[p].id})
        /\ procs[p].op = "Create" =>
              OthersUnchanged({}) /\ Cardinality(DOMAIN todos' \ Stored) <= 1
        /\ procs[p].op \in {"Get", "List"} => todos' = todos

\* C29: UpdateTodo, CompleteTodo and ArchiveTodo on id X, succeeding or
\* failing, leave the set of stored ids and every stored todo other than X
\* unchanged; a successful CreateTodo adds exactly one todo, under an id that
\* was not stored, and changes no existing todo; a failed CreateTodo, GetTodo
\* and ListTodos change nothing.
C29_TouchesOnlyTarget ==
    /\ []ReturnedCallFrame
    /\ [][StepFrame]_vars

\* "id1" has just been archived at time 1 while "id2", completed at time 0,
\* is stored as it was.
C29_Witness ==
    /\ last.op = "Archive"
    /\ last.id = "id1"
    /\ last.err = NilErr
    /\ Stored = {"id1", "id2"}
    /\ todos["id1"].updatedAt = 1
    /\ todos["id2"].status = TodoStatusCompleted
    /\ todos["id2"].updatedAt = 0

\* Every stored id can be read, the id a creation returned is stored, and
\* neither a call that returned, nor one in progress, nor a use case made on
\* the repository as it is, has called Delete or dropped a stored id.
NothingRemoved ==
    /\ last.op = "Create" /\ last.err = NilErr => last.rid \in Stored
    /\ \A id \in Stored : GetTodoRun(todos, id).err = NilErr
    /\ ~Called(last, "Delete")
    /\ \A p \in Running : ~Called(procs[p], "Delete")
    /\ Idle => \A id \in TodoIDs :
          /\ Stored \subseteq DOMAIN CompleteTodoRun(todos, id, now).repo
          /\ Stored \subseteq DOMAIN ArchiveTodoRun(todos, id, now).repo
          /\ ~Called(ArchiveTodoRun(todos, id, now), "Delete")
          /\ ~Called(CompleteTodoRun(todos, id, now), "Delete")
    /\ Idle => \A cmd \in ManyUpdateCommands :
          LET u == UpdateTodoRun(todos, cmd, now)
          IN  Stored \subseteq DOMAIN u.repo /\ ~Called(u, "Delete")
    /\ SequentialCallsAgree

\* C30: the id CreateTodoUseCase returns is stored; GetTodoUseCase succeeds
\* on every stored id; no use case calls the repository's Delete; and every
\* step keeps the stored ids stored and readable, so that GetTodoUseCase on
\* a stored id succeeds after any later sequence of use-case calls.
C30_NeverRemoved ==
    /\ []NothingRemoved
    /\ [][/\ DOMAIN todos \subseteq DOMAIN todos'
          /\ \A id \in Stored : GetTodoRun(todos', id).err = NilErr]_vars

\* "id1", created at time 0 and archived since, has just been read at time 1
\* while "id2" is stored too.
C30_Witness ==
    /\ last.op = "Get"
    /\ last.id = "id1"
    /\ last.err = NilErr
    /\ now = 1
    /\ Stored = {"id1", "id2"}
    /\ todos["id1"].createdAt = 0
    /\ todos["id1"].status = TodoStatusArchived

====
